---------------------------- MODULE Spec2Model ----------------------------
(***************************************************************************)
(* Model of the streaming tool-calling engine of src/src/App.tsx: the     *)
(* stream decoder (readStream), the tool call resolver and the            *)
(* conversation loop (handleSendMessage), the tool executor               *)
(* (executeMcpTool), the per-turn manifest fetch (fetchAllMcpTools) and    *)
(* the registry poller (syncTools effect).                                 *)
(*                                                                         *)
(* Text is modelled as a sequence of tokens.  A token stands for a short   *)
(* run of characters: a punctuation character, a word (a maximal run of    *)
(* [a-zA-Z0-9_]), a blank, a newline, a JSON key with its colon (and the   *)
(* comma before it), or a JSON string literal, which carries the text it   *)
(* quotes as a token sequence of its own.  Network reads cut a stream      *)
(* between two tokens.                                                     *)
(***************************************************************************)
EXTENDS Integers, Sequences, FiniteSets, TLC

\* ------------------------------------------------------------------ tokens

P(ch)   == [c |-> "punct", v |-> ch]
W(w)    == [c |-> "word", v |-> w]
K(k)    == [c |-> "key", v |-> k]
S(txt)  == [c |-> "str", txt |-> txt]
SP      == [c |-> "ws", v |-> " "]
NL      == [c |-> "nl", v |-> "\n"]

LB == P("{")
RB == P("}")
LS == P("[")
RS == P("]")
LP == P("(")
RP == P(")")

IsWs(tok)   == tok.c = "ws" \/ tok.c = "nl"
IsWord(tok) == tok.c = "word"

\* ------------------------------------------------------- JavaScript values

Undef     == [t |-> "undef"]
Lit(s)    == [t |-> "lit", s |-> s]
Num(s)    == [t |-> "num", s |-> s]
Str(txt)  == [t |-> "str", txt |-> txt]
Obj(k, v) == [t |-> "obj", keys |-> k, vals |-> v]
Arr(xs)   == [t |-> "arr", items |-> xs]
EmptyObj  == Obj(<<>>, <<>>)

\* The decimal words the inputs use, with the integers they denote.
NumWords == {"0", "1", "5", "100", "500000000", "2000000000"}
NumVal(s) ==
  CASE s = "0" -> 0
    [] s = "1" -> 1
    [] s = "5" -> 5
    [] s = "100" -> 100
    [] s = "500000000" -> 500000000
    [] s = "2000000000" -> 2000000000
    [] OTHER -> 0
LitWords == {"true", "false", "null"}

\* obj[key]: the last member of that name, undefined when there is none or
\* when obj is not an object.
RECURSIVE LastIndex(_, _, _)
LastIndex(keys, key, i) ==
  IF i = 0 THEN 0
  ELSE IF keys[i] = key THEN i ELSE LastIndex(keys, key, i - 1)

Get(val, key) ==
  IF val.t # "obj" THEN Undef
  ELSE LET i == LastIndex(val.keys, key, Len(val.keys))
       IN IF i = 0 THEN Undef ELSE val.vals[i]

\* JavaScript truthiness.
Truthy(val) ==
  CASE val.t = "undef" -> FALSE
    [] val.t = "lit" -> val.s = "true"
    [] val.t = "num" -> val.s # "0"
    [] val.t = "str" -> val.txt # <<>>
    [] OTHER -> TRUE

\* a || b
Or(a, b) == IF Truthy(a) THEN a ELSE b

\* ------------------------------------------------------------- JSON.parse

NotWs(tok) == ~IsWs(tok)

ParseFail == [ok |-> FALSE, val |-> Undef, nxt |-> 0]

RECURSIVE ParseValue(_, _)
RECURSIVE ParseMembers(_, _, _, _)
RECURSIVE ParseItems(_, _, _)

ParseValue(s, i) ==
  IF i > Len(s) THEN ParseFail
  ELSE LET tok == s[i] IN
    CASE tok = LB -> ParseMembers(s, i + 1, <<>>, <<>>)
      [] tok = LS -> ParseItems(s, i + 1, <<>>)
      [] tok.c = "str" -> [ok |-> TRUE, val |-> Str(tok.txt), nxt |-> i + 1]
      [] tok.c = "word" /\ tok.v \in LitWords ->
           [ok |-> TRUE, val |-> Lit(tok.v), nxt |-> i + 1]
      [] tok.c = "word" /\ tok.v \in NumWords ->
           [ok |-> TRUE, val |-> Num(tok.v), nxt |-> i + 1]
      [] OTHER -> ParseFail

ParseMembers(s, i, keys, vals) ==
  IF i > Len(s) THEN ParseFail
  ELSE IF s[i] = RB THEN [ok |-> TRUE, val |-> Obj(keys, vals), nxt |-> i + 1]
  ELSE IF s[i].c = "key"
    THEN LET r == ParseValue(s, i + 1) IN
         IF r.ok THEN ParseMembers(s, r.nxt, Append(keys, s[i].v), Append(vals, r.val))
         ELSE ParseFail
  ELSE ParseFail

ParseItems(s, i, items) ==
  IF i > Len(s) THEN ParseFail
  ELSE IF s[i] = RS THEN [ok |-> TRUE, val |-> Arr(items), nxt |-> i + 1]
  ELSE LET r == ParseValue(s, i) IN
       IF r.ok THEN ParseItems(s, r.nxt, Append(items, r.val))
       ELSE ParseFail

\* JSON.parse(text): blanks between tokens are skipped, the whole text must be
\* one value; ok = FALSE stands for the SyntaxError.
JSONParse(text) ==
  LET s == SelectSeq(text, NotWs)
      r == ParseValue(s, 1)
  IN IF r.ok /\ r.nxt = Len(s) + 1 THEN [ok |-> TRUE, val |-> r.val]
     ELSE [ok |-> FALSE, val |-> Undef]

\* ---------------------------------------------- JSON.stringify and String

RECURSIVE StringifyText(_)
RECURSIVE StringifyMembers(_, _, _)
RECURSIVE StringifyItems(_, _)

\* The text JSON.stringify writes for a value that is not undefined: a member
\* is its key token and its value, items follow one another.
StringifyText(val) ==
  CASE val.t = "obj" -> <<LB>> \o StringifyMembers(val.keys, val.vals, 1) \o <<RB>>
    [] val.t = "arr" -> <<LS>> \o StringifyItems(val.items, 1) \o <<RS>>
    [] val.t = "str" -> <<S(val.txt)>>
    [] OTHER -> <<W(val.s)>>

StringifyMembers(keys, vals, i) ==
  IF i > Len(keys) THEN <<>>
  ELSE <<K(keys[i])>> \o StringifyText(vals[i]) \o StringifyMembers(keys, vals, i + 1)

StringifyItems(items, i) ==
  IF i > Len(items) THEN <<>>
  ELSE StringifyText(items[i]) \o StringifyItems(items, i + 1)

\* JSON.stringify(val): undefined for undefined, else a string
JSONStringify(val) == IF val.t = "undef" THEN Undef ELSE Str(StringifyText(val))

RECURSIVE StringOf(_)
RECURSIVE JoinItems(_, _)

\* String(val): a string is itself, an object is "[object Object]", an array
\* is its items joined by commas (null and undefined items give nothing).
StringOf(val) ==
  CASE val.t = "str" -> val.txt
    [] val.t = "undef" -> <<W("undefined")>>
    [] val.t = "obj" -> <<LS, W("object"), SP, W("Object"), RS>>
    [] val.t = "arr" -> JoinItems(val.items, 1)
    [] OTHER -> <<W(val.s)>>

JoinItems(items, i) ==
  IF i > Len(items) THEN <<>>
  ELSE (IF i > 1 THEN <<P(",")>> ELSE <<>>)
       \o (IF items[i] = Lit("null") \/ items[i] = Undef THEN <<>> ELSE StringOf(items[i]))
       \o JoinItems(items, i + 1)

\* val == null: undefined or null
Nullish(val) == val = Undef \/ val = Lit("null")

\* val?.key
OptGet(val, key) == IF Nullish(val) THEN Undef ELSE Get(val, key)

\* val?.[0]: the first item of an array, the first character of a string (one
\* token here), the member "0" of an object
OptFirst(val) ==
  CASE Nullish(val) -> Undef
    [] val.t = "arr" -> IF val.items = <<>> THEN Undef ELSE val.items[1]
    [] val.t = "str" -> IF val.txt = <<>> THEN Undef ELSE Str(<<val.txt[1]>>)
    [] OTHER -> Get(val, "0")

\* ------------------------------------------------------- string operations

\* String concatenation: two words that meet form one word.
Concat(a, b) ==
  IF a # <<>> /\ b # <<>> /\ IsWord(a[Len(a)]) /\ IsWord(b[1])
  THEN SubSeq(a, 1, Len(a) - 1) \o <<W(a[Len(a)].v \o b[1].v)>> \o SubSeq(b, 2, Len(b))
  ELSE a \o b

RECURSIVE TrimLeft(_)
TrimLeft(s) == IF s # <<>> /\ IsWs(s[1]) THEN TrimLeft(Tail(s)) ELSE s

RECURSIVE TrimRight(_)
TrimRight(s) ==
  IF s # <<>> /\ IsWs(s[Len(s)]) THEN TrimRight(SubSeq(s, 1, Len(s) - 1)) ELSE s

\* String.prototype.trim
Trim(s) == TrimRight(TrimLeft(s))

\* s.includes(tok) for a one-character token
Includes(s, tok) == \E i \in 1..Len(s) : s[i] = tok

\* s.split('\n')
RECURSIVE SplitLines(_, _, _)
SplitLines(s, i, cur) ==
  IF i > Len(s) THEN <<cur>>
  ELSE IF s[i] = NL THEN <<cur>> \o SplitLines(s, i + 1, <<>>)
  ELSE SplitLines(s, i + 1, Append(cur, s[i]))

Split(s) == SplitLines(s, 1, <<>>)

\* ------------------------------------------------------------ JS numbers

RECURSIVE GCD(_, _)
GCD(a, b) == IF b = 0 THEN a ELSE GCD(b, a % b)

NaN      == [k |-> "nan"]
Infinity == [k |-> "inf"]
Rat(n, d) == LET g == GCD(n, d) IN [k |-> "rat", n |-> n \div g, d |-> d \div g]

NanosPerSecond == 1000000000

\* eval_count / (eval_duration / 1e9) on JavaScript numbers (non-negative
\* inputs).  The quotient eval_duration / 1e9 is formed first, as the code
\* does; a missing operand is NaN, x / 0 is Infinity and 0 / 0 is NaN.
TokensPerSecond(count, duration) ==
  IF count.t # "num" \/ duration.t # "num" THEN NaN
  ELSE LET c == NumVal(count.s)
           d == NumVal(duration.s)
           q == Rat(d, NanosPerSecond)
       IN IF d = 0 THEN (IF c = 0 THEN NaN ELSE Infinity)
          ELSE Rat(c * q.d, q.n)

\* --------------------------------------------------------------- messages

Msg(role, content, stats, tool_calls, tool_call_id) ==
  [role |-> role, content |-> content, stats |-> stats,
   tool_calls |-> tool_calls, tool_call_id |-> tool_call_id]

Stats(totalTokens, tps) == [t |-> "stats", totalTokens |-> totalTokens, tokensPerSecond |-> tps]

LastRole(msgs) == IF msgs = <<>> THEN "" ELSE msgs[Len(msgs)].role

\* Mutant of updateAssistantMessage: `stats: stats`, without `|| previous`
updateAssistantMessage_Overwrite(ss, sid, content, stats) ==
  [i \in 1..Len(ss) |->
     IF ss[i].id # sid THEN ss[i]
     ELSE LET msgs == ss[i].messages IN
       IF LastRole(msgs) # "assistant"
       THEN [ss[i] EXCEPT !.messages = Append(msgs, Msg("assistant", content, stats, Undef, Undef))]
       ELSE [ss[i] EXCEPT !.messages[Len(msgs)] =
               [@ EXCEPT !.content = content, !.stats = stats]]]

\* updateAssistantMessage (the sources argument is not modelled)
updateAssistantMessage(ss, sid, content, stats) ==
  [i \in 1..Len(ss) |->
     IF ss[i].id # sid THEN ss[i]
     ELSE LET msgs == ss[i].messages IN
       IF LastRole(msgs) # "assistant"
       THEN [ss[i] EXCEPT !.messages = Append(msgs, Msg("assistant", content, stats, Undef, Undef))]
       ELSE [ss[i] EXCEPT !.messages[Len(msgs)] =
               [@ EXCEPT !.content = content,
                         !.stats = IF stats # Undef THEN stats ELSE @]]]

\* The first setSessions of readStream: an empty assistant message is
\* appended unless the session already ends with one.
OpenAssistantMessage(ss, sid) ==
  [i \in 1..Len(ss) |->
     IF ss[i].id = sid /\ LastRole(ss[i].messages) # "assistant"
     THEN [ss[i] EXCEPT !.messages = Append(@, Msg("assistant", <<>>, Undef, Undef, Undef))]
     ELSE ss[i]]

\* ------------------------------------------------------------- readStream

\* String(v) for the values a content field holds in the inputs (a string,
\* a number or a literal).
ToText(val) ==
  CASE val.t = "str" -> val.txt
    [] val.t = "num" -> <<W(val.s)>>
    [] val.t = "lit" -> <<W(val.s)>>
    [] OTHER -> <<W("object")>>

\* The stats of one parsed line: only a line with a truthy `done` has any.
LineStats(data) ==
  IF Truthy(Get(data, "done"))
  THEN Stats(Get(data, "eval_count"),
             TokensPerSecond(Get(data, "eval_count"), Get(data, "eval_duration")))
  ELSE Undef

\* The locals of readStream with the sessions state it writes.
Reader(content, toolCalls, message, ss) ==
  [content |-> content, toolCalls |-> toolCalls, message |-> message, sessions |-> ss]

\* The body of `for (const line of lines)`: one line of one chunk.
ProcessLine(acc, sid, line) ==
  IF Trim(line) = <<>> THEN acc
  ELSE LET r == JSONParse(line) IN
    IF ~r.ok THEN acc                                   \* SyntaxError, caught
    ELSE LET data == r.val IN
      IF data = Lit("null") THEN acc                    \* TypeError, caught
      ELSE LET m  == Get(data, "message")
               c  == Get(m, "content")
               tc == Get(m, "tool_calls")
               content1 == IF Truthy(m) /\ Truthy(c)
                           THEN Concat(acc.content, ToText(c)) ELSE acc.content
               message1 == IF Truthy(m) THEN m ELSE acc.message
           IN IF Truthy(m) /\ Truthy(tc) /\ tc.t # "arr"
              THEN Reader(content1, acc.toolCalls, message1, acc.sessions)  \* spread throws
              ELSE Reader(content1,
                      IF Truthy(m) /\ Truthy(tc) THEN acc.toolCalls \o tc.items
                      ELSE acc.toolCalls,
                      message1,
                      updateAssistantMessage(acc.sessions, sid, content1, LineStats(data)))

\* Mutant of ProcessLines: the try/catch around the whole loop, so that the
\* first line that does not parse ends the chunk
RECURSIVE ProcessLines_AbortOnError(_, _, _)
ProcessLines_AbortOnError(acc, sid, lines) ==
  IF lines = <<>> THEN acc
  ELSE IF Trim(Head(lines)) # <<>> /\ ~JSONParse(Head(lines)).ok THEN acc
  ELSE ProcessLines_AbortOnError(ProcessLine(acc, sid, Head(lines)), sid, Tail(lines))

RECURSIVE ProcessLines(_, _, _)
ProcessLines(acc, sid, lines) ==
  IF lines = <<>> THEN acc
  ELSE ProcessLines(ProcessLine(acc, sid, Head(lines)), sid, Tail(lines))

\* One iteration of `while (true)`: one chunk, split at its newlines.
ProcessChunk(acc, sid, chunk) == ProcessLines(acc, sid, Split(chunk))

\* ------------------------------------------------------ tool call resolver

\* A tool call object {id, function: {name, arguments}}
Call(id, name, args) ==
  Obj(<<"id", "function">>, <<id, Obj(<<"name", "arguments">>, <<name, args>>)>>)

CallName(call) == Get(Get(call, "function"), "name")
CallArgs(call) == Get(Get(call, "function"), "arguments")

\* `call_fallback_json_${Date.now()}` and the like: one word
IdText(prefix, time) == Str(<<W(prefix \o ToString(time))>>)

\* A tool name of the manifest as the JavaScript string it is
NameStr(n) == Str(<<W(n)>>)

FirstIndex(s, tok) == CHOOSE i \in 1..Len(s) : s[i] = tok /\ \A j \in 1..(i - 1) : s[j] # tok
LastIndexOf(s, tok) == CHOOSE i \in 1..Len(s) : s[i] = tok /\ \A j \in (i + 1)..Len(s) : s[j] # tok

\* content.match(/\{[\s\S]*\}/): from the first '{' to the last '}' after it
JsonMatch(content) ==
  IF Includes(content, LB) /\ Includes(content, RB)
     /\ FirstIndex(content, LB) < LastIndexOf(content, RB)
  THEN [found |-> TRUE, from |-> FirstIndex(content, LB), to |-> LastIndexOf(content, RB)]
  ELSE [found |-> FALSE, from |-> 0, to |-> 0]

\* content.replace(match, "").trim(): the match is the first occurrence of
\* its own text, so the span [from, to] is what goes.
RemoveSpan(content, from, to) ==
  Trim(Concat(SubSeq(content, 1, from - 1), SubSeq(content, to + 1, Len(content))))

Resolved(content, toolCalls, tier) == [content |-> content, toolCalls |-> toolCalls, tier |-> tier]

\* if (Array.isArray(toolArgs)) toolArgs = toolArgs[0] || {} (line 931)
FirstIfArray(toolArgs) ==
  IF toolArgs.t = "arr"
  THEN (IF toolArgs.items # <<>> /\ Truthy(toolArgs.items[1]) THEN toolArgs.items[1] ELSE EmptyObj)
  ELSE toolArgs

\* Lines 926-938 for the object potentialTool parsed from the span m
SniffedCall(content, m, potentialTool, toolName, time) ==
  IF Truthy(toolName) /\ toolName.t = "str"
  THEN Resolved(RemoveSpan(content, m.from, m.to),
                <<Call(IdText("call_fallback_json_", time), toolName,
                       FirstIfArray(Or(Or(Get(potentialTool, "arguments"),
                                          Get(potentialTool, "parameters")),
                                       Get(potentialTool, "params"))))>>,
                "JsonSniff")
  ELSE Resolved(content, <<>>, "none")

\* Lines 924-939 for the span m: JSON.parse inside the try
SniffSpan(content, m, r, time) ==
  IF ~r.ok THEN Resolved(content, <<>>, "none")
  ELSE SniffedCall(content, m, r.val, Or(Get(r.val, "name"), Get(r.val, "function")), time)

\* Lines 921-924 once the pattern has been matched
SniffMatch(content, m, time) ==
  IF ~Includes(Trim(content), LB) \/ ~m.found THEN Resolved(content, <<>>, "none")
  ELSE SniffSpan(content, m, JSONParse(SubSeq(content, m.from, m.to)), time)

\* Fallback 1: JSON sniffing
JsonSniff(content, time) == SniffMatch(content, JsonMatch(content), time)

\* The end of the lazy (.*?) at a '(' in position p: the first ')' that is
\* followed by ']', with no line break on the way; 0 when there is none.
ArgsEnd(s, p) ==
  LET ends == {j \in (p + 1)..(Len(s) - 1) :
                 /\ s[j] = RP /\ s[j + 1] = RS
                 /\ \A k \in (p + 1)..(j - 1) : s[k] # NL}
  IN IF ends = {} THEN 0 ELSE CHOOSE j \in ends : \A k \in ends : j <= k

\* Whether /\[([a-zA-Z0-9_]+)(?:\((.*?)\))?\]/ matches at position i
BracketAt(s, i) ==
  /\ i + 2 <= Len(s)
  /\ s[i] = LS
  /\ IsWord(s[i + 1])
  /\ \/ s[i + 2] = RS
     \/ s[i + 2] = LP /\ ArgsEnd(s, i + 2) # 0

\* content.match(...) for that pattern: the leftmost match
BracketMatch(s) ==
  LET starts == {i \in 1..Len(s) : BracketAt(s, i)} IN
  IF starts = {} THEN [found |-> FALSE, from |-> 0, to |-> 0, name |-> "", args |-> <<>>]
  ELSE LET i == CHOOSE x \in starts : \A y \in starts : x <= y IN
       IF s[i + 2] = LP /\ ArgsEnd(s, i + 2) # 0
       THEN [found |-> TRUE, from |-> i, to |-> ArgsEnd(s, i + 2) + 1, name |-> s[i + 1].v,
             args |-> SubSeq(s, i + 3, ArgsEnd(s, i + 2) - 1)]
       ELSE [found |-> TRUE, from |-> i, to |-> i + 2, name |-> s[i + 1].v, args |-> <<>>]

\* let toolArgs = {}; if (bracketMatch[2]) ... (lines 948-956)
BracketArgs(raw, parsed) ==
  IF raw = <<>> THEN EmptyObj
  ELSE IF parsed.ok THEN parsed.val
  ELSE Obj(<<"input">>, <<Str(raw)>>)

\* Mutant of BracketCall: no check of the name against the manifest
BracketCall_NoManifestCheck(content, m, names, time) ==
  IF ~(Includes(content, LS) /\ Includes(content, RS)) \/ ~m.found
  THEN Resolved(content, <<>>, "none")
  ELSE Resolved(RemoveSpan(content, m.from, m.to),
                <<Call(IdText("call_fallback_bracket_", time), NameStr(m.name),
                       BracketArgs(m.args, JSONParse(m.args)))>>,
                "BracketSniff")

\* Lines 944-967 once the pattern has been matched as m
BracketCall(content, m, names, time) ==
  IF ~(Includes(content, LS) /\ Includes(content, RS)) \/ ~m.found
  THEN Resolved(content, <<>>, "none")
  ELSE IF m.name \in names
  THEN Resolved(RemoveSpan(content, m.from, m.to),
                <<Call(IdText("call_fallback_bracket_", time), NameStr(m.name),
                       BracketArgs(m.args, JSONParse(m.args)))>>,
                "BracketSniff")
  ELSE Resolved(content, <<>>, "none")

\* Fallback 2: bracket sniffing; names is the set of tool names of mcpTools
BracketSniff(content, names, time) == BracketCall(content, BracketMatch(content), names, time)

\* The bracket tier is tried on what the JSON tier has left, whatever it gave
ResolveText_BracketToo(j, names, time) ==
  IF BracketSniff(j.content, names, time).toolCalls # <<>>
  THEN BracketSniff(j.content, names, time)
  ELSE j

\* The fallback block after the JSON tier has given j
ResolveText(j, names, time) ==
  IF j.toolCalls # <<>> THEN j ELSE BracketSniff(j.content, names, time)

\* The fallback block of lines 917-971: native calls, else the JSON tier,
\* else the bracket tier
Resolve(content, toolCalls, names, time) ==
  IF toolCalls # <<>> THEN Resolved(content, toolCalls, "Native")
  ELSE ResolveText(JsonSniff(content, time), names, time)

\* ------------------------------------------------------------------ inputs

\* The most cuts the network makes in one stream of SpecDecode.
MaxCuts == 2

Text(w) == <<W(w)>>

\* {"message":{"role":"assistant","content":<txt>}}
ContentLine(txt) ==
  <<LB, K("message"), LB, K("role"), S(Text("assistant")), K("content"), S(txt), RB, RB>>

\* {"message":{...,"content":""},"done":true,"eval_count":c,"eval_duration":d}
DoneLine(c, d) ==
  <<LB, K("message"), LB, K("role"), S(Text("assistant")), K("content"), S(<<>>), RB,
    K("done"), W("true"), K("eval_count"), W(c), K("eval_duration"), W(d), RB>>

\* the JSON text of one tool call; id = "" leaves the id out
CallText(id, name) ==
  (IF id = "" THEN <<LB>> ELSE <<LB, K("id"), S(Text(id))>>)
  \o <<K("function"), LB, K("name"), S(Text(name)), K("arguments"), LB, RB, RB, RB>>

\* {"message":{"role":"assistant","content":"","tool_calls":[...]}}
ToolCallLine(calls) ==
  <<LB, K("message"), LB, K("role"), S(Text("assistant")), K("content"), S(<<>>),
    K("tool_calls"), LS>> \o calls \o <<RS, RB, RB>>

\* the same line carrying done and the counters as well
ToolCallDoneLine(calls, c, d) ==
  <<LB, K("message"), LB, K("role"), S(Text("assistant")), K("content"), S(<<>>),
    K("tool_calls"), LS>> \o calls
  \o <<RS, RB, K("done"), W("true"), K("eval_count"), W(c), K("eval_duration"), W(d), RB>>

CorruptLine == <<LB, K("message"), W("oops")>>
BlankLine   == <<SP>>
NullLine    == <<W("null")>>

RECURSIVE JoinLines(_)
JoinLines(lines) ==
  IF lines = <<>> THEN <<>> ELSE Head(lines) \o <<NL>> \o JoinLines(Tail(lines))

\* The response bodies SpecDecode reads.
DecodeStreams ==
  { JoinLines(<<ContentLine(Text("a")), ContentLine(Text("b")), DoneLine("100", "2000000000")>>),
    JoinLines(<<ContentLine(Text("a")), CorruptLine, ContentLine(<<SP, W("b")>>), DoneLine("5", "500000000")>>),
    JoinLines(<<BlankLine, ContentLine(Text("a")), NullLine, DoneLine("0", "0")>>),
    JoinLines(<<ToolCallLine(CallText("c1", "get_current_time")), DoneLine("1", "2000000000")>>),
    JoinLines(<<DoneLine("100", "500000000"), ContentLine(Text("b"))>>),
    JoinLines(<<CorruptLine, DoneLine("5", "0"), BlankLine, ContentLine(Text("a"))>>),
    JoinLines(<<ContentLine(Text("a")), ToolCallDoneLine(CallText("", "get_current_time"), "100", "2000000000")>>),
    JoinLines(<<ToolCallLine(CallText("c1", "get_current_time")),
                ToolCallDoneLine(CallText("c1", "get_current_time"), "5", "500000000")>>),
    ContentLine(Text("a")) \o <<NL>> \o ContentLine(Text("b")) }

\* ------------------------------------------------------------------- state

VARIABLES
  pc,          \* where the running handler stands
  sessions,    \* the sessions state: <<[id, messages]>>
  rd,          \* readStream: its reader and locals
  turn,        \* handleSendMessage: its locals and the state its closure captured
  currentSessionId,  \* 0 stands for null
  isLoading,
  isSyncing,
  config,      \* the fields of config the engine reads
  mcpServers,  \* the endpoint set: <<[url, status, tools, toolCount]>>
  now,         \* Date.now()
  net,         \* the requests the running turn has issued, by kind, the answers
               \* to its tools/call and chat requests, and the alert it has shown
  polled,      \* the tools/list requests of the latest poll cycle
  reg,         \* the poll cycle and the registration in flight, with their closures
  pending,     \* updates of a send are not rendered yet: the handlers on
               \* screen still close over the values before them
  wf           \* the workflow view: isWFRunning, executingWorkflowId and
               \* workflowLogs, and the run of handleRunWorkflow in flight

ui == <<currentSessionId, isLoading, isSyncing, config, mcpServers, now, net, polled, reg, pending, wf>>
vars == <<pc, sessions, rd, turn, currentSessionId, isLoading, isSyncing, config,
          mcpServers, now, net, polled, reg, pending, wf>>

\* readStream entered on response body `body`: the locals of lines 582-585,
\* the reader, and what the run has seen so far (stream, lines, updates:
\* history only, kept when track is set).
OpenReader(body, cuts, track) ==
  [rest |-> body, cuts |-> cuts, content |-> <<>>, toolCalls |-> <<>>, message |-> Undef,
   track |-> track, stream |-> IF track THEN body ELSE <<>>, lines |-> <<>>, updates |-> <<>>]

NoReader == OpenReader(<<>>, 0, FALSE)

\* The updateAssistantMessage calls one chunk causes: <<[line, stats]>>
RECURSIVE UpdatesOf(_)
UpdatesOf(lines) ==
  IF lines = <<>> THEN <<>>
  ELSE LET line == Head(lines)
           r == JSONParse(line)
           m == Get(r.val, "message")
           tc == Get(m, "tool_calls")
       IN (IF Trim(line) # <<>> /\ r.ok /\ r.val # Lit("null")
              /\ ~(Truthy(m) /\ Truthy(tc) /\ tc.t # "arr")
           THEN <<[line |-> line, stats |-> LineStats(r.val)]>> ELSE <<>>)
          \o UpdatesOf(Tail(lines))

\* reader.read() returns the next n tokens of the body: one pass of the
\* while loop of readStream.
ReadChunk(n) ==
  /\ pc \in {"decode", "stream1", "stream2"}
  /\ rd.rest # <<>>
  /\ n \in 1..Len(rd.rest)
  /\ n = Len(rd.rest) \/ rd.cuts > 0
  /\ LET chunk == SubSeq(rd.rest, 1, n)
         acc == ProcessChunk(Reader(rd.content, rd.toolCalls, rd.message, sessions),
                             turn.sessionId, chunk)
     IN /\ rd' = [rd EXCEPT !.rest = SubSeq(rd.rest, n + 1, Len(rd.rest)),
                            !.cuts = IF n = Len(rd.rest) THEN @ ELSE @ - 1,
                            !.content = acc.content,
                            !.toolCalls = acc.toolCalls,
                            !.message = acc.message,
                            !.lines = IF rd.track THEN @ \o Split(chunk) ELSE @,
                            !.updates = IF rd.track THEN @ \o UpdatesOf(Split(chunk)) ELSE @]
        /\ sessions' = acc.sessions
  /\ UNCHANGED <<pc, turn, ui>>

\* reader.read() returns done: readStream returns {content, toolCalls, message}
DecodeReturn ==
  /\ pc = "decode"
  /\ rd.rest = <<>>
  /\ pc' = "decoded"
  /\ UNCHANGED <<sessions, rd, turn, ui>>

UserMsg(txt) == Msg("user", txt, Undef, Undef, Undef)

\* The answer to a request: kind is "throw" (fetch rejects), "response" (a
\* response, ok or not, with the text body) or "none" (not requested)
Answer(kind, ok, body) == [kind |-> kind, ok |-> ok, body |-> body]
NoAnswer == Answer("none", FALSE, <<>>)

\* The answers to the requests of the memory steps of a turn
NoMemory ==
  [embed |-> NoAnswer, check |-> NoAnswer, create |-> NoAnswer, search |-> NoAnswer,
   upsert |-> NoAnswer]

\* The locals of handleSendMessage before a turn has set them (mem: the
\* answers its memory requests got, kept for the claims on them; overtaken:
\* the turns in flight that a later send has overtaken).
NoTurn ==
  [sessionId |-> 0, userInput |-> <<>>, mcpEnabled |-> FALSE, servers |-> <<>>,
   messages |-> <<>>, contextString |-> <<>>, srv |-> 0,
   mcpTools |-> <<>>, history |-> <<>>,
   streamed |-> <<>>, native |-> <<>>, content |-> <<>>, toolCalls |-> <<>>,
   tier |-> "none", message |-> Undef, idx |-> 0, toolResponses |-> <<>>, time |-> 0,
   mem |-> NoMemory, overtaken |-> 0]

NoNet ==
  [chat |-> <<>>, calls |-> <<>>, answers |-> <<>>, lists |-> <<>>, log |-> <<>>, open |-> 0,
   replies |-> <<>>, alert |-> <<>>, sink |-> <<>>]

\* The timeout of a probe of syncTools, in ms (line 363)
PollTimeoutMs == 1500

\* The tools/list requests of one run of syncTools (lines 355-364); timeout 0
\* stands for a request without an abort signal
PollRequests(servers, enabled) ==
  [i \in 1..Len(servers) |->
     [url |-> servers[i].url, enabled |-> enabled, timeout |-> PollTimeoutMs]]

\* What the registry did last (kept for the claims on it): kind is "poll" or
\* "register", before is the endpoint set its closure held, outcomes the
\* answers to its probes, url the URL registered, wrote whether it has
\* called setMcpServers
NoOp == [kind |-> "none", before |-> <<>>, outcomes |-> <<>>, url |-> "", wrote |-> FALSE]

\* No poll cycle and no registration in flight (snap and regSnap: the
\* mcpServers of the closure that runs; probes: the requests registrations
\* have issued)
NoRegistry ==
  [polling |-> FALSE, snap |-> <<>>, registering |-> FALSE, regSnap |-> <<>>, regUrl |-> "",
   probes |-> <<>>, last |-> NoOp]

\* The workflow view before any run (lines 285-288), with the locals of
\* handleRunWorkflow (steps, input, i, currentContext; pc is "idle", "wait"
\* at the await of a step's request or "sleep" at the delay after a step),
\* the requests the latest run has issued and the answers they got.  Steps
\* and logs are counted from 1.  stale: the start of a run is not rendered
\* yet, the handlers on screen still close over isWFRunning as it was;
\* prior: the locals of the runs in flight that a later run has overtaken.
NoRun ==
  [pc |-> "idle", isWFRunning |-> FALSE, executingWorkflowId |-> "", workflowLogs |-> <<>>,
   steps |-> <<>>, input |-> <<>>, i |-> 0, currentContext |-> Str(<<>>), requests |-> <<>>,
   answers |-> <<>>, runs |-> 0, stale |-> FALSE, prior |-> <<>>]

\* DEFAULT_CONFIG (lines 118-236): the fields the engine and the overlay
\* read, and ollamaUrl for those nothing here writes
DefaultConfig ==
  [mcpEnabled |-> TRUE, systemPrompt |-> Str(<<W("default-prompt")>>),
   model |-> Str(<<W("qwen2.5:1.5b")>>), temperature |-> Num("0.7"), topK |-> Num("40"),
   ollamaUrl |-> Str(<<W("http://localhost:11434")>>)]

\* Every update is rendered: the handlers on screen close over the state
\* (else: over isLoading, sessions and currentSessionId of the last render)
Rendered == [on |-> FALSE, isLoading |-> FALSE, sessions |-> <<>>, currentSessionId |-> 0]

\* line 254-256
InitialServers ==
  <<[url |-> "http://localhost:8000", status |-> "offline", tools |-> <<>>, toolCount |-> 0]>>

\* The state of the component once constructed (lines 241-257, 236), its
\* effects run: tool use is on by default, so the effect of lines 403-404 has
\* called syncTools once.
InitUi ==
  /\ currentSessionId = 0
  /\ isLoading = FALSE
  /\ isSyncing = FALSE
  /\ config = DefaultConfig
  /\ mcpServers = InitialServers
  /\ now = 1
  /\ net = NoNet
  /\ polled = PollRequests(InitialServers, TRUE)
  /\ reg = NoRegistry
  /\ pending = Rendered
  /\ wf = NoRun

InitDecode ==
  /\ pc = "decode"
  /\ turn = [NoTurn EXCEPT !.sessionId = 1]
  /\ InitUi
  /\ \E body \in DecodeStreams :
       /\ rd = OpenReader(body, MaxCuts, TRUE)
       /\ sessions = OpenAssistantMessage(<<[id |-> 1, messages |-> <<UserMsg(Text("hi"))>>]>>, 1)

NextDecode ==
  \/ \E n \in 1..Len(rd.rest) : ReadChunk(n)
  \/ DecodeReturn

SpecDecode == InitDecode /\ [][NextDecode]_vars

\* readStream on the whole body in one read
ReadWhole(body) == ProcessChunk(Reader(<<>>, <<>>, Undef, <<>>), 0, body)

\* ---------------------------------------------------- resolver on its own

ToolNames(mcpTools) == {mcpTools[i].name : i \in 1..Len(mcpTools)}

Tool(n, url) == [name |-> n, serverUrl |-> url]

CityRome == <<LB, K("city"), S(Text("Rome")), RB>>

\* What a sniffed object may hold under name, under function and as arguments
NameFields == {<<>>, <<K("name"), S(Text("get_weather"))>>, <<K("name"), S(<<>>)>>,
               <<K("name"), W("5")>>}
FunctionFields == {<<>>, <<K("function"), S(Text("get_current_time"))>>}
ArgumentFields ==
  {<<>>,
   <<K("arguments")>> \o CityRome,
   <<K("arguments"), LS>> \o CityRome \o <<RS>>,
   <<K("arguments"), LS, RS>>,
   <<K("parameters")>> \o CityRome,
   <<K("params")>> \o CityRome,
   <<K("arguments"), W("null"), K("params"), LB, RB>>}

JsonBodies ==
  {<<LB>> \o n \o f \o a \o <<RB>> : n \in NameFields, f \in FunctionFields, a \in ArgumentFields}

BracketBodies ==
  {<<LS, W("get_current_time"), RS>>,
   <<LS, W("get_weather"), RS>>,
   <<LS, W("1"), RS>>,
   <<LS, W("get_current_time"), LP, RP, RS>>,
   <<LS, W("get_current_time"), LP>> \o CityRome \o <<RP, RS>>,
   <<LS, W("get_current_time"), LP, W("Rome"), SP, W("now"), RP, RS>>,
   <<LS, W("see"), SP, W("note"), RS>>,
   <<LS, W("get_current_time")>>}

Prefixes == {<<>>, <<W("Sure"), SP>>, <<LS, W("ref"), RS, SP>>, <<LS, W("get_weather"), RS, SP>>}
Suffixes == {<<>>, <<SP, W("done")>>, <<SP, LB, W("x"), RB>>}

ResolveInputs ==
  {pre \o body \o suf : pre \in Prefixes, body \in JsonBodies \cup BracketBodies, suf \in Suffixes}

Manifests ==
  {<<>>,
   <<Tool("get_current_time", "http://localhost:8000")>>,
   <<Tool("get_current_time", "http://localhost:8000"), Tool("get_weather", "http://localhost:8000")>>}

NativeCalls == {<<>>, <<Call(Str(Text("c1")), NameStr("get_weather"), EmptyObj)>>}

\* The fallback block of handleSendMessage (lines 917-970) applied to what
\* readStream returned.
\* The fallback block trims the content it leaves
Fallback_Trimmed(t, r) ==
  [t EXCEPT !.content = Trim(r.content), !.toolCalls = r.toolCalls, !.tier = r.tier]

\* The locals of the handler after the fallback block has given r
Fallback(t, r) == [t EXCEPT !.content = r.content, !.toolCalls = r.toolCalls, !.tier = r.tier]

ApplyResolve ==
  /\ pc = "resolve"
  /\ turn' = Fallback(turn, Resolve(turn.streamed, turn.native, ToolNames(turn.mcpTools), turn.time))
  /\ pc' = "resolved"
  /\ UNCHANGED <<sessions, rd, ui>>

InitResolve ==
  /\ pc = "resolve"
  /\ sessions = <<>>
  /\ rd = NoReader
  /\ InitUi
  /\ \E c \in ResolveInputs, n \in NativeCalls, m \in Manifests :
       turn = [NoTurn EXCEPT !.streamed = c, !.native = n, !.mcpTools = m,
                             !.content = c, !.toolCalls = n, !.time = 1]

NextResolve == ApplyResolve

SpecResolve == InitResolve /\ [][NextResolve]_vars

\* --------------------------------------------------------- tool registry

\* The answer to a probe: kind is "throw" (fetch rejects, or the timeout
\* aborts it), "notok" (a response that is not ok) or "ok"; json tells whether
\* the body is JSON, and tools are the names under result.tools.
Probe(kind, json, tools) == [kind |-> kind, json |-> json, tools |-> tools, configs |-> Undef]

\* A probe that succeeded and whose body has configs under result
ProbeWith(tools, configs) ==
  [kind |-> "ok", json |-> TRUE, tools |-> tools, configs |-> configs]

\* The decimal texts the overlays use, with their integer parts
DecimalWords == {"0", "0.2", "0.7", "10", "40", "40.5"}
IntPart(s) ==
  CASE s \in {"0.2", "0.7"} -> "0"
    [] s = "40.5" -> "40"
    [] OTHER -> s

\* parseFloat(val): the number itself, the number a decimal text denotes,
\* NaN for any other text
ParseFloat(val) ==
  CASE val.t = "num" -> val
    [] val.t = "str" /\ Len(val.txt) = 1 /\ IsWord(val.txt[1])
       /\ val.txt[1].v \in DecimalWords -> Num(val.txt[1].v)
    [] OTHER -> Num("NaN")

\* parseInt(val): the integer part of what parseFloat reads
ParseInt(val) ==
  IF ParseFloat(val).s = "NaN" THEN Num("NaN") ELSE Num(IntPart(ParseFloat(val).s))

\* Lines 372-380: the updater setConfig gets when result.configs is truthy
Overlay(prev, remoteConfigs) ==
  IF ~Truthy(remoteConfigs) THEN prev
  ELSE [prev EXCEPT
          !.systemPrompt = Or(Get(remoteConfigs, "system_prompt"), prev.systemPrompt),
          !.model = Or(Get(remoteConfigs, "model"), prev.model),
          !.temperature = IF Truthy(Get(remoteConfigs, "temperature"))
                          THEN ParseFloat(Get(remoteConfigs, "temperature"))
                          ELSE prev.temperature,
          !.topK = IF Truthy(Get(remoteConfigs, "top_k"))
                   THEN ParseInt(Get(remoteConfigs, "top_k"))
                   ELSE prev.topK]

\* The configuration after the probes of one cycle (lines 366-380): the
\* body is read only from a response that is ok, and the updaters run on the
\* configuration current then, here in the order of the endpoints.
RECURSIVE Overlaid(_, _, _)
Overlaid(prev, outcomes, i) ==
  IF i > Len(outcomes) THEN prev
  ELSE Overlaid(IF outcomes[i].kind = "ok" /\ outcomes[i].json
                THEN Overlay(prev, outcomes[i].configs) ELSE prev,
                outcomes, i + 1)

\* Mutant of SyncServer: a probe that succeeds sets the status and keeps the
\* cached list
SyncServer_StatusOnly(server, outcome) ==
  CASE outcome.kind = "throw" \/ (outcome.kind = "ok" /\ ~outcome.json) ->
         IF server.status = "online"
         THEN [server EXCEPT !.status = "offline", !.tools = <<>>, !.toolCount = 0]
         ELSE server
    [] OTHER -> [server EXCEPT !.status = "online"]

\* Mutant of SyncServer: a probe that fails sets the status and keeps the
\* cached list
SyncServer_KeepOnFailure(server, outcome) ==
  CASE outcome.kind = "throw" \/ (outcome.kind = "ok" /\ ~outcome.json) ->
         [server EXCEPT !.status = "offline"]
    [] outcome.kind = "ok"
       /\ (server.status = "offline" \/ Len(server.tools) # Len(outcome.tools)) ->
         [server EXCEPT !.status = "online", !.tools = outcome.tools,
                        !.toolCount = Len(outcome.tools)]
    [] OTHER -> [server EXCEPT !.status = "online"]

\* One probe of syncTools (lines 354-394): what it makes of `server`. The
\* catch block runs when fetch rejects and when response.json() does;
\* response.json() is only called on a response that is ok.
SyncServer(server, outcome) ==
  CASE outcome.kind = "throw" \/ (outcome.kind = "ok" /\ ~outcome.json) ->
         IF server.status = "online"
         THEN [server EXCEPT !.status = "offline", !.tools = <<>>, !.toolCount = 0]
         ELSE server
    [] outcome.kind = "ok"
       /\ (server.status = "offline" \/ Len(server.tools) # Len(outcome.tools)) ->
         [server EXCEPT !.status = "online", !.tools = outcome.tools,
                        !.toolCount = Len(outcome.tools)]
    [] OTHER -> [server EXCEPT !.status = "online"]

ProbeOutcomes ==
  {Probe("throw", FALSE, <<>>), Probe("notok", FALSE, <<>>),
   Probe("ok", TRUE, <<"get_current_time">>)}

\* updatedServers (lines 354-395) from the endpoint set of the closure
UpdatedServers(servers, outcomes) ==
  [i \in 1..Len(servers) |-> SyncServer(servers[i], outcomes[i])]

\* Mutant of Changed: every cycle writes
Changed_Always(servers, updatedServers) == TRUE

\* Line 397: the texts JSON.stringify gives for two endpoint sets differ
\* exactly when the sets do
Changed(servers, updatedServers) == updatedServers # servers

\* Lines 397-400: the write, when the new set differs from that of the closure
WriteIfChanged(servers, updatedServers) ==
  mcpServers' = IF Changed(servers, updatedServers) THEN updatedServers ELSE mcpServers

\* syncTools, run by the effect of lines 349-411 on mount, on a change of its
\* dependencies and every 5 s, all of them only while config.mcpEnabled: one
\* tools/list per endpoint, then the write of the new endpoint set.  Here the
\* cycle is one step: nothing else writes the endpoint set in between.
PollCycle(outcomes) ==
  /\ pc \in {"idle", "augment", "list_wait", "chat1_wait", "stream1", "call_wait",
             "chat2_wait", "stream2"}
  /\ config.mcpEnabled
  /\ WriteIfChanged(mcpServers, UpdatedServers(mcpServers, outcomes))
  /\ config' = Overlaid(config, outcomes, 1)
  /\ polled' = PollRequests(mcpServers, config.mcpEnabled)
  /\ UNCHANGED <<pc, sessions, rd, turn, currentSessionId, isLoading, isSyncing, now, net,
                 reg, pending, wf>>

\* The user switches tool use on or off in the configuration panel.
ToggleMcp ==
  /\ pc \in {"idle", "augment", "list_wait", "chat1_wait", "stream1", "call_wait",
             "chat2_wait", "stream2"}
  /\ config' = [config EXCEPT !.mcpEnabled = ~@]
  /\ UNCHANGED <<pc, sessions, rd, turn, currentSessionId, isLoading, isSyncing, mcpServers, now,
                 net, polled, reg, pending, wf>>

\* ------------------------------------------------------ conversation loop

\* The most turns of one run of the model.
MaxTurns == 1

UserInputs == {<<SP>>, Text("hi")}

RECURSIVE NamesText(_)
NamesText(mcpTools) ==
  IF mcpTools = <<>> THEN <<>>
  ELSE <<SP, W(Head(mcpTools).name)>> \o NamesText(Tail(mcpTools))

\* finalSystemPrompt (lines 874-887): the base prompt, the memory context,
\* then the offline warning or the list of the tools of the manifest
SystemPrompt(contextString, mcpTools) ==
  <<W("systemPrompt")>> \o contextString
  \o (IF mcpTools = <<>> THEN <<SP, W("OFFLINE")>> ELSE <<SP, W("MANIFEST")>> \o NamesText(mcpTools))

SystemMsg(txt) == Msg("system", txt, Undef, Undef, Undef)

\* The tools field is the manifest, empty or not
ChatRequest_ToolsAlways(history, mcpEnabled, mcpTools) ==
  [messages |-> history,
   tools |-> Arr([i \in 1..Len(mcpTools) |-> NameStr(mcpTools[i].name)])]

\* The body of a chat request (lines 897-906, 1024-1033): its messages and
\* its tools field, undefined unless tool use is on and the manifest is not
\* empty
ChatRequest(history, mcpEnabled, mcpTools) ==
  [messages |-> history,
   tools |-> IF mcpEnabled /\ mcpTools # <<>>
             THEN Arr([i \in 1..Len(mcpTools) |-> NameStr(mcpTools[i].name)]) ELSE Undef]

AppendMessages(ss, sid, msgs) ==
  [i \in 1..Len(ss) |-> IF ss[i].id = sid THEN [ss[i] EXCEPT !.messages = @ \o msgs] ELSE ss[i]]

MessagesOf(ss, sid) ==
  IF \E i \in 1..Len(ss) : ss[i].id = sid
  THEN ss[CHOOSE i \in 1..Len(ss) : ss[i].id = sid].messages
  ELSE <<>>

\* Mutant of ToolIndex: a name no tool has gets the first tool
ToolIndex_FirstTool(mcpTools, toolName) ==
  LET hits == {i \in 1..Len(mcpTools) : NameStr(mcpTools[i].name) = toolName}
  IN IF hits = {} THEN (IF mcpTools = <<>> THEN 0 ELSE 1)
     ELSE CHOOSE i \in hits : \A k \in hits : i <= k

\* mcpTools.find(t => t.function.name === toolName): its index, 0 for none
ToolIndex(mcpTools, toolName) ==
  LET hits == {i \in 1..Len(mcpTools) : NameStr(mcpTools[i].name) = toolName}
  IN IF hits = {} THEN 0 ELSE CHOOSE i \in hits : \A k \in hits : i <= k

\* Mutant of NextExecutable: the last such invocation instead of the first
NextExecutable_Last(t, k) ==
  LET todo == {i \in k..Len(t.toolCalls) : ToolIndex(t.mcpTools, CallName(t.toolCalls[i])) # 0}
  IN IF todo = {} THEN 0 ELSE CHOOSE i \in todo : \A m \in todo : i >= m

\* The first invocation from position k on that has a tool definition, 0
\* when there is none: the for loop of lines 983-1005 skips the others.
NextExecutable(t, k) ==
  LET todo == {i \in k..Len(t.toolCalls) : ToolIndex(t.mcpTools, CallName(t.toolCalls[i])) # 0}
  IN IF todo = {} THEN 0 ELSE CHOOSE i \in todo : \A m \in todo : i <= m

RoleOf(message) ==
  LET r == Get(message, "role")
  IN IF r.t = "str" /\ Len(r.txt) = 1 /\ IsWord(r.txt[1]) THEN r.txt[1].v ELSE ""

\* toolCallMessage (lines 978-981): {...message, content: content || ""}
ToolCallMessage(message, content) ==
  Msg(RoleOf(message), content, Undef, Get(message, "tool_calls"), Undef)

\* call.id || `call_${Date.now()}_${idx}` (idx counts from 0)
ToolCallId(call, k, time) ==
  Or(Get(call, "id"), Str(<<W("call_" \o ToString(time) \o "_" \o ToString(k - 1))>>))

\* The first chat request (lines 873-907), issued once the manifest t.mcpTools
\* is fetched.
StartChat1(t) ==
  LET history == <<SystemMsg(SystemPrompt(t.contextString, t.mcpTools))>> \o t.messages
  IN /\ turn' = [t EXCEPT !.history = history]
     /\ net' = [net EXCEPT !.chat = Append(@, ChatRequest(history, t.mcpEnabled, t.mcpTools))]
     /\ pc' = "chat1_wait"

\* Mutant of FetchFrom: without the early return of lines 670-672
FetchFrom_IgnoreSetting(t, k) ==
  IF k <= Len(t.servers)
  THEN /\ turn' = [t EXCEPT !.srv = k]
       /\ net' = [net EXCEPT !.lists = Append(@, [url |-> t.servers[k].url, timeout |-> 0])]
       /\ pc' = "list_wait"
  ELSE StartChat1(t)

\* fetchAllMcpTools from endpoint k on (lines 670-698): nothing when tool
\* use is off, else one tools/list after the other, each without an abort
\* signal (timeout 0).
FetchFrom(t, k) ==
  IF t.mcpEnabled /\ k <= Len(t.servers)
  THEN /\ turn' = [t EXCEPT !.srv = k]
       /\ net' = [net EXCEPT !.lists = Append(@, [url |-> t.servers[k].url, timeout |-> 0])]
       /\ pc' = "list_wait"
  ELSE StartChat1(t)

\* isLoading, sessions and currentSessionId as the handleSendMessage on
\* screen reads them: the values of the render that created the handler
SeenLoading == IF pending.on THEN pending.isLoading ELSE isLoading
SeenSessions == IF pending.on THEN pending.sessions ELSE sessions
SeenSessionId == IF pending.on THEN pending.currentSessionId ELSE currentSessionId

\* The render the handlers on screen come from, after a send
LastRender(flushed) ==
  CASE flushed -> Rendered
    [] pending.on -> pending
    [] OTHER -> [on |-> TRUE, isLoading |-> isLoading, sessions |-> sessions,
                 currentSessionId |-> currentSessionId]

\* handleSendMessage up to its first await (lines 812-853).  flushed: the
\* state it sets is rendered before the next event is handled.
SendFrom(text, flushed) ==
  /\ pc \in {"idle", "augment", "list_wait", "chat1_wait", "stream1", "call_wait",
             "chat2_wait", "stream2"}
  /\ IF Trim(text) = <<>> \/ SeenLoading THEN UNCHANGED vars
     ELSE LET sessionId == IF SeenSessionId = 0 THEN now ELSE SeenSessionId
              currentSessions == IF SeenSessionId = 0
                                 THEN <<[id |-> now, messages |-> <<>>]>> \o SeenSessions
                                 ELSE SeenSessions
              updatedSessions == AppendMessages(currentSessions, sessionId, <<UserMsg(text)>>)
          IN /\ sessions' = updatedSessions
             /\ currentSessionId' = sessionId
             /\ isLoading' = TRUE
             /\ isSyncing' = TRUE
             /\ pending' = LastRender(flushed)
             /\ turn' = [NoTurn EXCEPT !.sessionId = sessionId, !.userInput = text,
                                       !.mcpEnabled = config.mcpEnabled,
                                       !.servers = mcpServers,
                                       !.messages = MessagesOf(updatedSessions, sessionId),
                                       !.time = now,
                                       !.overtaken = IF pc = "idle" THEN turn.overtaken
                                                     ELSE turn.overtaken + 1]
             /\ now' = now + 1
             /\ net' = NoNet
             /\ pc' = "augment"
             /\ UNCHANGED <<rd, config, mcpServers, polled, reg, wf>>

\* A send handled after the render of the updates before it, in a run of at
\* most MaxTurns turns
SendMessage(text) == now <= MaxTurns /\ SendFrom(text, TRUE)

\* The render that follows a state update commits: the handlers on screen
\* are those of the current state.
Render ==
  /\ pending.on
  /\ pending' = Rendered
  /\ UNCHANGED <<pc, sessions, rd, turn, currentSessionId, isLoading, isSyncing, config,
                 mcpServers, now, net, polled, reg, wf>>

\* A turn that a later send has overtaken reaches its finally block (lines
\* 1051-1053), as every path of the handler does.  Of what it does before,
\* keyed by its session id, nothing is kept here.
OvertakenEnds ==
  /\ turn.overtaken > 0
  /\ turn' = [turn EXCEPT !.overtaken = @ - 1]
  /\ isLoading' = FALSE
  /\ UNCHANGED <<pc, sessions, rd, currentSessionId, isSyncing, config, mcpServers, now, net,
                 polled, reg, pending, wf>>

\* What the body of a function gives: a value it returns or an error it
\* throws (val is then the message of the error)
Returned(val) == [raised |-> FALSE, val |-> val]
Raised(message) == [raised |-> TRUE, val |-> Str(message)]

\* The catch and finally blocks (lines 1048-1053): the message of the error
\* is shown in an alert
Failed(nt, message) ==
  /\ net' = [nt EXCEPT !.alert = message]
  /\ isLoading' = FALSE
  /\ pc' = "idle"

\* The message of the error a chat request ends in: that of fetch when it
\* rejects (kind "throw"), else the one made from a response that is not ok
\* (kind "notok", lines 909-912 and 1036-1039)
FetchFailedText == <<W("Failed"), SP, W("to"), SP, W("fetch")>>
ChatErrorText(kind, label) == IF kind = "throw" THEN FetchFailedText ELSE label

\* getEmbedding (lines 438-457) on the answer to its request
EmbeddingOf(p) == IF ~p.ok \/ Nullish(p.val) THEN Lit("null") ELSE Get(p.val, "embedding")

GetEmbedding(a) ==
  IF a.kind = "throw" \/ ~a.ok THEN Lit("null") ELSE EmbeddingOf(JSONParse(a.body))

\* searchQdrant (lines 520-538) on the answer to its request: response.ok is
\* not read; data.result || [], and [] when anything throws
ResultsOf(p) ==
  IF ~p.ok \/ Nullish(p.val) THEN Arr(<<>>) ELSE Or(Get(p.val, "result"), Arr(<<>>))

SearchQdrant(a) == IF a.kind = "throw" THEN Arr(<<>>) ELSE ResultsOf(JSONParse(a.body))

\* results.map(r => `- ${r.payload.content}`).join("\n") from item i on; a
\* TypeError when an item or its payload is undefined or null
RECURSIVE ContextLines(_, _)
ContextLines(items, i) ==
  IF i > Len(items) THEN Returned(Str(<<>>))
  ELSE IF Nullish(items[i]) \/ Nullish(Get(items[i], "payload"))
  THEN Raised(<<W("Cannot"), SP, W("read"), SP, W("properties"), SP, W("of"), SP, W("undefined")>>)
  ELSE LET rest == ContextLines(items, i + 1) IN
       IF rest.raised THEN rest
       ELSE Returned(Str((IF i > 1 THEN <<NL>> ELSE <<>>) \o <<P("-"), SP>>
                         \o StringOf(Get(Get(items[i], "payload"), "content")) \o rest.val.txt))

ContextHeader == <<NL, NL, W("Relevant"), SP, W("past"), SP, W("context"), P(":"), NL>>

WithHeader(r) == IF r.raised THEN r ELSE Returned(Str(ContextHeader \o r.val.txt))

\* Lines 858-863: contextString from the results of the search (results.length
\* is a number only for an array and a string; a string has no map)
ContextOf(results) ==
  CASE results.t = "arr" /\ results.items # <<>> -> WithHeader(ContextLines(results.items, 1))
    [] results.t = "str" /\ results.txt # <<>> ->
         Raised(<<W("results"), P("."), W("map"), SP, W("is"), SP, W("not"), SP, W("a"), SP,
                  W("function")>>)
    [] OTHER -> Returned(Str(<<>>))

\* Lines 853-870 on the answers o to the memory requests: contextString, or
\* the error the steps throw (initializeQdrantCollection, lines 459-481, and
\* upsertToQdrant, lines 483-500, return nothing the handler reads and throw
\* nothing)
MemoryContext(o) ==
  IF Truthy(GetEmbedding(o.embed)) THEN ContextOf(SearchQdrant(o.search))
  ELSE Returned(Str(<<>>))

\* The requests of the memory steps that were issued, with their answers:
\* the others only on an embedding, the creation only when the check was
\* answered and not ok, the upsert unless the context threw
Issued(o) ==
  IF ~Truthy(GetEmbedding(o.embed)) THEN [NoMemory EXCEPT !.embed = o.embed]
  ELSE [o EXCEPT !.create = IF o.check.kind = "response" /\ ~o.check.ok THEN @ ELSE NoAnswer,
                 !.upsert = IF MemoryContext(o).raised THEN NoAnswer ELSE @]

\* Lines 871-873 and on: fetchAllMcpTools starts with the context r; an error
\* of the memory steps goes to the catch block of handleSendMessage
AfterMemory(t, r) ==
  IF r.raised
  THEN Failed(net, r.val.txt) /\ turn' = t /\ UNCHANGED isSyncing
  ELSE /\ isSyncing' = FALSE
       /\ FetchFrom([t EXCEPT !.contextString = r.val.txt], 1)
       /\ UNCHANGED isLoading

\* The memory steps (lines 853-871) with the answers o to their requests
\* (kept in the turn when log is set), then the start of fetchAllMcpTools.
AugmentWith(o, log) ==
  /\ pc = "augment"
  /\ AfterMemory([turn EXCEPT !.mem = IF log THEN Issued(o) ELSE @], MemoryContext(o))
  /\ UNCHANGED <<sessions, rd, currentSessionId, config, mcpServers, now, polled, reg, pending, wf>>

\* '{"embedding":[1,5]}'
EmbeddingBody == <<LB, K("embedding"), LS, W("1"), W("5"), RS, RB>>

\* '{"result":[...]}' around the text of the hits
SearchBody(hits) == <<LB, K("result"), LS>> \o hits \o <<RS, RB>>

\* The answers of a store that works: an embedding or none, and the hits
MemoryAnswers(embedded, hits) ==
  [embed |-> IF embedded THEN Answer("response", TRUE, EmbeddingBody)
             ELSE Answer("throw", FALSE, <<>>),
   check |-> Answer("response", TRUE, <<>>),
   create |-> NoAnswer,
   search |-> Answer("response", TRUE, SearchBody(hits)),
   upsert |-> Answer("response", TRUE, <<>>)]

\* The memory steps of the turns of Spec: the embedding answers (or fails),
\* and on an embedding the collection check, the search and the upsert follow.
Augment(embedded, hits) == AugmentWith(MemoryAnswers(embedded, hits), FALSE)

\* What the memory search finds for the prompt: the store is empty.
MemoryHits == {<<>>}

\* The answer to one tools/list of fetchAllMcpTools (lines 686-697)
ListReturn(outcome) ==
  /\ pc = "list_wait"
  /\ LET server == turn.servers[turn.srv]
         found == IF outcome.kind = "ok"
                  THEN [i \in 1..Len(outcome.tools) |-> Tool(outcome.tools[i], server.url)]
                  ELSE <<>>
     IN FetchFrom([turn EXCEPT !.mcpTools = @ \o found], turn.srv + 1)
  /\ UNCHANGED <<sessions, rd, currentSessionId, isLoading, isSyncing, config, mcpServers, now,
                 polled, reg, pending, wf>>

ListOutcomes ==
  {[kind |-> "throw", tools |-> <<>>], [kind |-> "ok", tools |-> <<"get_current_time">>]}

\* '{"name":"get_current_time","arguments":{}}' as the model writes it in text
JsonCallText == <<LB, K("name"), S(Text("get_current_time")), K("arguments"), LB, RB, RB>>

\* The bodies the model service answers the first chat request with.
Responses1 ==
  { JoinLines(<<ContentLine(Text("Hello")), DoneLine("100", "2000000000")>>),
    JoinLines(<<ContentLine(Text("Let")),
                ToolCallDoneLine(CallText("c1", "get_current_time"), "100", "2000000000")>>),
    JoinLines(<<ToolCallLine(CallText("c2", "get_weather") \o CallText("c1", "get_current_time")
                             \o CallText("c4", "get_current_time")),
                DoneLine("100", "2000000000")>>),
    JoinLines(<<ToolCallDoneLine(CallText("", "get_current_time"), "5", "500000000")>>),
    JoinLines(<<ContentLine(<<W("Sure"), SP>> \o JsonCallText), DoneLine("5", "500000000")>>),
    JoinLines(<<ContentLine(<<LS, W("get_current_time"), RS>>), DoneLine("5", "500000000")>>) }

\* The bodies it answers the follow-up request with: a plain answer, and
\* one that asks for tools again, natively and in its text.
Responses2 ==
  { JoinLines(<<ContentLine(Text("Done")), DoneLine("100", "2000000000")>>),
    JoinLines(<<ContentLine(JsonCallText),
                ToolCallDoneLine(CallText("c3", "get_current_time"), "5", "500000000")>>) }

\* The end of a turn: logToMlflow (lines 565-575, not awaited: it posts when
\* the endpoint set the handler captured has an online endpoint), then the
\* finally block.
Done(t, content) ==
  /\ turn' = [t EXCEPT !.content = content]
  /\ net' = [net EXCEPT !.log =
               IF \E i \in 1..Len(t.servers) : t.servers[i].status = "online"
               THEN Append(@, [input |-> t.userInput, output |-> content]) ELSE @]
  /\ isLoading' = FALSE
  /\ pc' = "idle"

\* The for loop of lines 983-1005 from invocation k on, up to the next
\* await: the next invocation with a tool definition is sent to its endpoint
\* (executeMcpTool, lines 712-727); when none is left, lines 1007-1034: the
\* call message and the tool messages go to the history and to the session,
\* and the follow-up request is issued.
\* executeMcpTool up to its await (lines 712-727) for invocation j, which
\* has the tool definition toolDef; the request has no abort signal
ExecuteMcpTool(t, j, call, toolDef, ss, nt) ==
  /\ turn' = [t EXCEPT !.idx = j]
  /\ net' = [nt EXCEPT !.calls = Append(@, [name |-> CallName(call), args |-> CallArgs(call),
                                             serverUrl |-> toolDef.serverUrl, index |-> j,
                                             timeout |-> 0]),
                        !.open = @ + 1]
  /\ isSyncing' = TRUE
  /\ sessions' = ss
  /\ pc' = "call_wait"

\* Lines 1007-1034: the messages of the tool round go to the history and to
\* the session, and the follow-up request is issued
FollowUp(t, msgs, ss, nt) ==
  /\ turn' = [t EXCEPT !.history = @ \o msgs, !.idx = 0]
  /\ net' = [nt EXCEPT !.chat = Append(@, ChatRequest(t.history \o msgs, t.mcpEnabled, t.mcpTools))]
  /\ isSyncing' = FALSE
  /\ sessions' = AppendMessages(ss, t.sessionId, msgs)
  /\ pc' = "chat2_wait"

\* The loop from invocation k on, j being the next with a tool definition
ExecuteNext(t, j, ss, nt) ==
  IF j # 0
  THEN ExecuteMcpTool(t, j, t.toolCalls[j],
                      t.mcpTools[ToolIndex(t.mcpTools, CallName(t.toolCalls[j]))], ss, nt)
  ELSE FollowUp(t, <<ToolCallMessage(t.message, t.content)>> \o t.toolResponses, ss, nt)

ExecuteFrom(t, k, ss, nt) == ExecuteNext(t, NextExecutable(t, k), ss, nt)

\* Mutant of Chat1Return: a request that failed is taken for an empty answer
Chat1Return_GoOn(kind, body) ==
  /\ pc = "chat1_wait"
  /\ rd' = OpenReader(body, 0, FALSE)
  /\ sessions' = OpenAssistantMessage(sessions, turn.sessionId)
  /\ pc' = "stream1"
  /\ net' = [net EXCEPT !.replies = Append(@, kind)]
  /\ UNCHANGED <<turn, isLoading>>
  /\ UNCHANGED <<currentSessionId, isSyncing, config, mcpServers, now, polled, reg, pending, wf>>

\* The answer to the first chat request (lines 894-915, 587-597): kind is
\* "ok" (a response that is ok, with the text body), "notok" or "throw"
Chat1Return(kind, body) ==
  /\ pc = "chat1_wait"
  /\ IF kind = "ok"
     THEN /\ rd' = OpenReader(body, 0, FALSE)
          /\ sessions' = OpenAssistantMessage(sessions, turn.sessionId)
          /\ pc' = "stream1"
          /\ net' = [net EXCEPT !.replies = Append(@, kind)]
          /\ UNCHANGED <<turn, isLoading>>
     ELSE /\ Failed([net EXCEPT !.replies = Append(@, kind)], ChatErrorText(kind, <<W("Ollama"), SP, W("Error")>>))
          /\ UNCHANGED <<rd, sessions, turn>>
  /\ UNCHANGED <<currentSessionId, isSyncing, config, mcpServers, now, polled, reg, pending, wf>>

\* if (toolCalls && toolCalls.length > 0) (line 973): the tool round, else
\* the end of the turn
ToolRound(t) ==
  IF t.toolCalls = <<>>
  THEN Done(t, t.content) /\ UNCHANGED <<sessions, isSyncing>>
  ELSE ExecuteFrom(t, 1, sessions, net) /\ UNCHANGED isLoading

\* readStream returns for the first response: the fallback block, then the
\* tool round or the end of the turn (lines 915-983, 1044-1053)
FinishStream1 ==
  /\ pc = "stream1"
  /\ rd.rest = <<>>
  /\ ToolRound(Fallback([turn EXCEPT !.streamed = rd.content, !.native = rd.toolCalls,
                                      !.message = rd.message],
                        Resolve(rd.content, rd.toolCalls, ToolNames(turn.mcpTools), turn.time)))
  /\ UNCHANGED <<rd, currentSessionId, config, mcpServers, now, polled, reg, pending, wf>>

\* `Error: Tool execution failed. ${message}` (line 736)
ToolErrorText(message) ==
  <<W("Error"), P(":"), SP, W("Tool"), SP, W("execution"), SP, W("failed"), P("."), SP>> \o message

\* "Tool returned no data." (line 732)
NoDataText == <<W("Tool"), SP, W("returned"), SP, W("no"), SP, W("data"), P(".")>>

\* data.result?.content?.[0]?.text || data.result?.text ||
\* JSON.stringify(data.result) (line 730)
PickResult(result) ==
  Or(Or(OptGet(OptFirst(OptGet(result, "content")), "text"), OptGet(result, "text")),
     JSONStringify(result))

\* Lines 728-732 on what response.json() gave: a SyntaxError for a body that
\* is not JSON, a TypeError for data.result on null
ExecuteOnData(p) ==
  IF ~p.ok THEN Raised(<<W("Unexpected"), SP, W("token")>>)
  ELSE IF Nullish(p.val)
  THEN Raised(<<W("Cannot"), SP, W("read"), SP, W("properties"), SP, W("of"), SP, W("null")>>)
  ELSE Returned(Or(PickResult(Get(p.val, "result")), Str(NoDataText)))

\* The try block of executeMcpTool (lines 713-732) on the answer to its
\* request: outcome.kind is "throw" (fetch rejects) or "response" (a response
\* of any status with the text outcome.body; response.ok is not read).
ExecuteTry(outcome) ==
  IF outcome.kind = "throw" THEN Raised(FetchFailedText)
  ELSE ExecuteOnData(JSONParse(outcome.body))

\* Mutant of ExecuteCatch: the error is thrown on
ExecuteCatch_Rethrow(r) == r

\* The catch block of executeMcpTool (lines 733-737)
ExecuteCatch(r) == IF r.raised THEN Returned(Str(ToolErrorText(r.val.txt))) ELSE r

\* What executeMcpTool gives its caller
ExecuteResult(outcome) == ExecuteCatch(ExecuteTry(outcome))

ToolThrow == [kind |-> "throw", ok |-> FALSE, body |-> <<>>]
ToolResponse(ok, body) == [kind |-> "response", ok |-> ok, body |-> body]

\* '{"result":{"content":[{"text":"12:00"}]}}'
ContentResultBody ==
  <<LB, K("result"), LB, K("content"), LS, LB, K("text"), S(Text("12:00")), RB, RS, RB, RB>>

\* The answers to a tools/call the turns of Spec meet
ToolOutcomes == {ToolResponse(TRUE, ContentResultBody), ToolThrow}

\* The rest of the pass of the loop after executeMcpTool (lines 993-1003) and
\* the next passes up to the next await; an error executeMcpTool throws goes
\* to the catch block of handleSendMessage.
AfterCall(t, r, nt) ==
  IF r.raised
  THEN Failed(nt, r.val.txt) /\ turn' = t /\ UNCHANGED <<sessions, isSyncing>>
  ELSE /\ ExecuteFrom([t EXCEPT !.toolResponses =
                         Append(@, Msg("tool", StringOf(r.val), Undef, Undef,
                                       ToolCallId(t.toolCalls[t.idx], t.idx, t.time)))],
                      t.idx + 1, sessions, nt)
       /\ UNCHANGED isLoading

\* The answer to a tools/call (executeMcpTool, lines 728-737) and the rest
\* of that pass of the loop (lines 993-1003)
CallReturn(outcome) ==
  /\ pc = "call_wait"
  /\ AfterCall(turn, ExecuteResult(outcome),
               [net EXCEPT !.open = @ - 1, !.answers = Append(@, outcome)])
  /\ UNCHANGED <<rd, currentSessionId, config, mcpServers, now, polled, reg, pending, wf>>

\* The answer to the follow-up request (lines 1036-1042)
Chat2Return(kind, body) ==
  /\ pc = "chat2_wait"
  /\ IF kind = "ok"
     THEN /\ rd' = OpenReader(body, 0, FALSE)
          /\ sessions' = OpenAssistantMessage(sessions, turn.sessionId)
          /\ pc' = "stream2"
          /\ net' = [net EXCEPT !.replies = Append(@, kind)]
          /\ UNCHANGED <<turn, isLoading>>
     ELSE /\ Failed([net EXCEPT !.replies = Append(@, kind)], ChatErrorText(kind, <<W("Ollama"), SP, W("Tool"), SP, W("Result"), SP,
                                               W("Error")>>))
          /\ UNCHANGED <<rd, sessions, turn>>
  /\ UNCHANGED <<currentSessionId, isSyncing, config, mcpServers, now, polled, reg, pending, wf>>

\* Mutant of FinishStream2: the follow-up response goes through the fallback
\* block and the tool round as the first one does
FinishStream2_ResolveAgain ==
  /\ pc = "stream2"
  /\ rd.rest = <<>>
  /\ ToolRound(Fallback([turn EXCEPT !.toolResponses = <<>>],
                        Resolve(rd.content, rd.toolCalls, ToolNames(turn.mcpTools), turn.time)))
  /\ UNCHANGED <<rd, currentSessionId, config, mcpServers, now, polled, reg, pending, wf>>

\* readStream returns for the follow-up response (lines 1042-1053)
FinishStream2 ==
  /\ pc = "stream2"
  /\ rd.rest = <<>>
  /\ Done(turn, rd.content)
  /\ UNCHANGED <<sessions, rd, currentSessionId, isSyncing, config, mcpServers, now, polled, reg, pending, wf>>

Init ==
  /\ pc = "idle"
  /\ sessions = <<>>
  /\ rd = NoReader
  /\ turn = NoTurn
  /\ InitUi

Next ==
  \/ \E text \in UserInputs : SendMessage(text)
  \/ \E embedded \in BOOLEAN, hits \in MemoryHits : Augment(embedded, hits)
  \/ \E outcome \in ListOutcomes : ListReturn(outcome)
  \/ \E body \in Responses1 : Chat1Return("ok", body)
  \/ \E kind \in {"notok", "throw"} : Chat1Return(kind, <<>>)
  \/ \E n \in 1..Len(rd.rest) : ReadChunk(n)
  \/ FinishStream1
  \/ \E outcome \in ToolOutcomes : CallReturn(outcome)
  \/ \E body \in Responses2 : Chat2Return("ok", body)
  \/ \E kind \in {"notok", "throw"} : Chat2Return(kind, <<>>)
  \/ FinishStream2
  \/ \E outcomes \in [1..Len(mcpServers) -> ProbeOutcomes] : PollCycle(outcomes)
  \/ ToggleMcp

Spec == Init /\ [][Next]_vars

\* ------------------------------------------------ tool executor on its own

\* The texts an endpoint answers a tools/call with
ExecuteBodies ==
  { ContentResultBody,
    <<LB, K("result"), LB, K("text"), S(Text("12:00")), RB, RB>>,
    <<LB, K("result"), LB, K("value"), W("5"), RB, RB>>,
    <<LB, K("result"), LB, K("content"), LS, RS, RB, RB>>,
    <<LB, K("result"), LB, K("content"), LS, LB, K("text"), S(<<>>), RB, RS, K("text"), S(<<>>), RB, RB>>,
    <<LB, K("result"), LB, K("content"), LS, LB, K("text"), LB, K("a"), W("1"), RB, RB, RS, RB, RB>>,
    <<LB, K("result"), LB, K("content"), S(Text("abc")), RB, RB>>,
    <<LB, K("result"), LB, K("text"), W("5"), RB, RB>>,
    <<LB, K("result"), LB, K("text"), LS, RS, RB, RB>>,
    <<LB, K("result"), W("null"), RB>>,
    <<LB, K("result"), S(<<>>), RB>>,
    <<LB, K("error"), LB, K("code"), W("1"), RB, RB>>,
    <<LS, RS>>,
    <<W("null")>>,
    <<W("Internal"), SP, W("Server"), SP, W("Error")>>,
    <<>> }

\* Every answer a tools/call can get: no response, or a response of a
\* success or a non-success status with one of these texts
AllToolOutcomes ==
  {ToolThrow} \cup {ToolResponse(ok, body) : ok \in BOOLEAN, body \in ExecuteBodies}

\* A first response that asks for three tools, two of them in the manifest
ThreeCallsBody ==
  JoinLines(<<ToolCallLine(CallText("c2", "get_weather") \o CallText("c1", "get_current_time")
                           \o CallText("c4", "get_current_time")),
              DoneLine("100", "2000000000")>>)

PlainBody == JoinLines(<<ContentLine(Text("Done")), DoneLine("100", "2000000000")>>)

\* One turn with two tools/call requests, each answered in every way
NextExecute ==
  \/ now = 1 /\ SendMessage(Text("hi"))
  \/ Augment(FALSE, <<>>)
  \/ ListReturn([kind |-> "ok", tools |-> <<"get_current_time">>])
  \/ Chat1Return("ok", ThreeCallsBody)
  \/ ReadChunk(Len(rd.rest))
  \/ FinishStream1
  \/ \E outcome \in AllToolOutcomes : CallReturn(outcome)
  \/ Chat2Return("ok", PlainBody)
  \/ FinishStream2

SpecExecute == Init /\ [][NextExecute]_vars

\* ---------------------------------------------- memory steps on their own

\* '{"status":{"error":"x"}}': the body of an error of the vector store
StoreErrorBody == <<LB, K("status"), LB, K("error"), S(Text("x")), RB, RB>>

\* '{"payload":{"content":"past"}}': a hit of the search
PastHit == <<LB, K("payload"), LB, K("content"), S(Text("past")), RB, RB>>

EmbedAnswers ==
  {Answer("throw", FALSE, <<>>),
   Answer("response", FALSE, StoreErrorBody),
   Answer("response", FALSE, EmbeddingBody),
   Answer("response", TRUE, <<LB, RB>>),
   Answer("response", TRUE, EmbeddingBody)}

\* The answers whose body the code does not read
PlainAnswers ==
  {Answer("throw", FALSE, <<>>), Answer("response", FALSE, <<>>), Answer("response", TRUE, <<>>)}

SearchBodies ==
  {SearchBody(<<>>), SearchBody(PastHit), SearchBody(PastHit \o PastHit),
   SearchBody(<<LB, K("id"), W("1"), RB>>), StoreErrorBody,
   <<W("Bad"), SP, W("Gateway")>>}

SearchAnswers ==
  {Answer("throw", FALSE, <<>>)}
  \cup {Answer("response", ok, body) : ok \in BOOLEAN, body \in SearchBodies}

MemoryAnswerSets ==
  [embed : EmbedAnswers, check : PlainAnswers, create : PlainAnswers, search : SearchAnswers,
   upsert : PlainAnswers]

HelloBody == JoinLines(<<ContentLine(Text("Hello")), DoneLine("100", "2000000000")>>)

\* One turn whose memory requests are answered in every way
NextMemory ==
  \/ now = 1 /\ SendMessage(Text("hi"))
  \/ \E o \in MemoryAnswerSets : AugmentWith(o, TRUE)
  \/ \E outcome \in ListOutcomes : ListReturn(outcome)
  \/ \E kind \in {"ok", "notok"} : Chat1Return(kind, HelloBody)
  \/ ReadChunk(Len(rd.rest))
  \/ FinishStream1

SpecMemory == Init /\ [][NextMemory]_vars

\* --------------------------------------------------- registry on its own

\* The most registrations of one run of the model.
MaxRegistrations == 1

\* syncTools up to its awaits (lines 350-364): the closure holds the endpoint
\* set of the render that created it, and one tools/list goes to each
\* endpoint.  One cycle is in flight at a time.
PollStart ==
  /\ pc = "idle"
  /\ config.mcpEnabled
  /\ ~reg.polling
  /\ reg' = [reg EXCEPT !.polling = TRUE, !.snap = mcpServers]
  /\ polled' = PollRequests(mcpServers, config.mcpEnabled)
  /\ UNCHANGED <<pc, sessions, rd, turn, currentSessionId, isLoading, isSyncing, config,
                 mcpServers, now, net, pending, wf>>

\* The probes of the cycle are answered (lines 365-400): updatedServers is
\* made from the endpoint set of the closure and written when it differs
\* from it.
PollFinish(outcomes) ==
  /\ pc = "idle"
  /\ reg.polling
  /\ WriteIfChanged(reg.snap, UpdatedServers(reg.snap, outcomes))
  /\ config' = Overlaid(config, outcomes, 1)
  /\ reg' = [reg EXCEPT !.polling = FALSE, !.snap = <<>>,
                        !.last = [kind |-> "poll", before |-> reg.snap, outcomes |-> outcomes,
                                  url |-> "",
                                  wrote |-> Changed(reg.snap,
                                                    UpdatedServers(reg.snap, outcomes))]]
  /\ UNCHANGED <<pc, sessions, rd, turn, currentSessionId, isLoading, isSyncing, now, net,
                 polled, pending, wf>>

\* registerMcpServer up to its await (lines 635-647): nothing for an empty
\* URL, else one tools/list, without an abort signal, to the URL.  One
\* registration is in flight at a time.
RegisterStart(url) ==
  /\ pc = "idle"
  /\ ~reg.registering
  /\ Len(reg.probes) < MaxRegistrations
  /\ IF url = "" THEN UNCHANGED vars
     ELSE /\ reg' = [reg EXCEPT !.registering = TRUE, !.regSnap = mcpServers, !.regUrl = url,
                                !.probes = Append(@, [url |-> url, timeout |-> 0])]
          /\ isSyncing' = TRUE
          /\ UNCHANGED <<pc, sessions, rd, turn, currentSessionId, isLoading, config, mcpServers,
                         now, net, polled, pending, wf>>

\* The endpoint registerMcpServer adds (lines 648-658, 661-663): response.ok
\* is not read, so every response whose body is JSON gives an online
\* endpoint; the catch block gives an offline one.
Registered(url, outcome) ==
  IF outcome.kind = "throw" \/ ~outcome.json
  THEN [url |-> url, status |-> "offline", tools |-> <<>>, toolCount |-> 0]
  ELSE [url |-> url, status |-> "online", tools |-> outcome.tools,
        toolCount |-> Len(outcome.tools)]

\* The probe of the registration is answered (lines 648-667): the new
\* endpoint is written after the endpoint set of the closure.
RegisterReturn(outcome) ==
  /\ pc = "idle"
  /\ reg.registering
  /\ mcpServers' = Append(reg.regSnap, Registered(reg.regUrl, outcome))
  /\ isSyncing' = FALSE
  /\ reg' = [reg EXCEPT !.registering = FALSE, !.regSnap = <<>>, !.regUrl = "",
                        !.last = [kind |-> "register", before |-> reg.regSnap,
                                  outcomes |-> <<outcome>>, url |-> reg.regUrl,
                                  wrote |-> TRUE]]
  /\ UNCHANGED <<pc, sessions, rd, turn, currentSessionId, isLoading, config, now, net, polled, pending, wf>>

\* The answers to the probe of a registration: no response, a non-success
\* response with and without a JSON body, a success response that is not
\* JSON, and tool lists of one length with different members and of another
\* length
RegisterOutcomes ==
  {Probe("throw", FALSE, <<>>), Probe("notok", TRUE, <<>>), Probe("notok", FALSE, <<>>),
   Probe("ok", FALSE, <<>>), Probe("ok", TRUE, <<>>),
   Probe("ok", TRUE, <<"get_current_time">>), Probe("ok", TRUE, <<"get_weather">>)}

\* The answers to a probe of a poll cycle (the body of a response that is
\* not ok is not read)
PollOutcomes ==
  {Probe("throw", FALSE, <<>>), Probe("notok", FALSE, <<>>), Probe("ok", FALSE, <<>>),
   Probe("ok", TRUE, <<"get_current_time">>), Probe("ok", TRUE, <<"get_weather">>)}

NewUrls == {"", "http://localhost:9000"}

NextRegistry ==
  \/ PollStart
  \/ \E outcomes \in [1..Len(reg.snap) -> PollOutcomes] : PollFinish(outcomes)
  \/ \E url \in NewUrls : RegisterStart(url)
  \/ \E outcome \in RegisterOutcomes : RegisterReturn(outcome)
  \/ ToggleMcp

SpecRegistry == Init /\ [][NextRegistry]_vars

\* ------------------------------------------- probes with an overlay

\* result.configs of a probe: each member absent or present
OverlayOf(prompt, model, temperature, topK) ==
  Obj(<<"system_prompt", "model", "temperature", "top_k">>,
      <<prompt, model, temperature, topK>>)

Overlays ==
  {OverlayOf(prompt, model, temperature, topK) :
     prompt \in {Undef, Str(<<W("be"), SP, W("brief")>>)},
     model \in {Undef, Str(<<>>), Str(<<W("llama3")>>)},
     temperature \in {Undef, Num("0"), Str(<<W("0.2")>>), Str(<<W("hot")>>)},
     topK \in {Undef, Num("0"), Num("10"), Num("40.5")}}

\* The answers to a probe: no response, a response that is not ok (its body
\* is not read), and success without configs, with empty configs and with an
\* overlay
OverlayOutcomes ==
  {Probe("throw", FALSE, <<>>), Probe("notok", FALSE, <<>>),
   Probe("ok", TRUE, <<"get_current_time">>), ProbeWith(<<"get_current_time">>, EmptyObj)}
  \cup {ProbeWith(<<"get_current_time">>, o) : o \in Overlays}

NextOverlay ==
  \/ PollStart
  \/ \E outcomes \in [1..Len(reg.snap) -> OverlayOutcomes] : PollFinish(outcomes)
  \/ ToggleMcp

SpecOverlay == Init /\ [][NextOverlay]_vars

\* ------------------------------------------- sends before the next render

\* The most sends of one run of the model.
MaxSends == 2

\* Turns whose sends may come before the render of the state the send before
\* them has set; the render commits before any request is answered.
NextSend ==
  \/ \E text \in UserInputs : now <= MaxSends /\ SendFrom(text, FALSE)
  \/ Render
  \/ ~pending.on /\ \E embedded \in BOOLEAN : Augment(embedded, <<>>)
  \/ ~pending.on /\ \E outcome \in ListOutcomes : ListReturn(outcome)
  \/ ~pending.on /\ \E body \in {HelloBody, ThreeCallsBody} : Chat1Return("ok", body)
  \/ ~pending.on /\ Chat1Return("notok", <<>>)
  \/ ~pending.on /\ ReadChunk(Len(rd.rest))
  \/ ~pending.on /\ FinishStream1
  \/ ~pending.on /\ \E outcome \in ToolOutcomes : CallReturn(outcome)
  \/ ~pending.on /\ Chat2Return("ok", PlainBody)
  \/ ~pending.on /\ FinishStream2
  \/ ~pending.on /\ OvertakenEnds

SpecSend == Init /\ [][NextSend]_vars

\* ------------------------------------------------- one turn, fairly scheduled

\* The steps that answer the request a turn waits for, or read on
Progress ==
  \/ \E embedded \in BOOLEAN : Augment(embedded, <<>>)
  \/ \E outcome \in ListOutcomes : ListReturn(outcome)
  \/ \E body \in {HelloBody, ThreeCallsBody} : Chat1Return("ok", body)
  \/ \E kind \in {"notok", "throw"} : Chat1Return(kind, <<>>)
  \/ ReadChunk(Len(rd.rest))
  \/ FinishStream1
  \/ \E outcome \in ToolOutcomes : CallReturn(outcome)
  \/ Chat2Return("ok", PlainBody)
  \/ \E kind \in {"notok", "throw"} : Chat2Return(kind, <<>>)
  \/ FinishStream2

NextTurn ==
  \/ \E text \in UserInputs : SendMessage(text)
  \/ Progress

SpecTurn == Init /\ [][NextTurn]_vars

\* ------------------------------------------------- turns and the session list

\* createNewSession (lines 418-428): an empty session, put first and selected
CreateNewSession ==
  /\ pc \in {"idle", "augment", "list_wait", "chat1_wait", "stream1", "call_wait",
             "chat2_wait", "stream2"}
  /\ now <= MaxSends
  /\ sessions' = <<[id |-> now, messages |-> <<>>]>> \o sessions
  /\ currentSessionId' = now
  /\ now' = now + 1
  /\ UNCHANGED <<pc, rd, turn, isLoading, isSyncing, config, mcpServers, net, polled, reg,
                 pending, wf>>

\* The user clicks a session of the list (line 1142)
SelectSession(i) ==
  /\ pc \in {"idle", "augment", "list_wait", "chat1_wait", "stream1", "call_wait",
             "chat2_wait", "stream2"}
  /\ i \in 1..Len(sessions)
  /\ currentSessionId' = sessions[i].id
  /\ UNCHANGED <<pc, sessions, rd, turn, isLoading, isSyncing, config, mcpServers, now, net,
                 polled, reg, pending, wf>>

\* Turns, each sent after the render of the state before it, while the user
\* opens and selects sessions
NextSessions ==
  \/ \E text \in UserInputs : now <= MaxSends /\ SendFrom(text, TRUE)
  \/ CreateNewSession
  \/ \E i \in 1..MaxSends : SelectSession(i)
  \/ \E embedded \in BOOLEAN : Augment(embedded, <<>>)
  \/ \E outcome \in ListOutcomes : ListReturn(outcome)
  \/ \E body \in {HelloBody, ThreeCallsBody} : Chat1Return("ok", body)
  \/ Chat1Return("notok", <<>>)
  \/ ReadChunk(Len(rd.rest))
  \/ FinishStream1
  \/ \E outcome \in ToolOutcomes : CallReturn(outcome)
  \/ Chat2Return("ok", PlainBody)
  \/ FinishStream2

SpecSessions == Init /\ [][NextSessions]_vars

\* ------------------------------------------- reports to the observability sink

\* The answer of the sink is shown as the error of a turn
Reported_Surfaced(nt, outcome) ==
  [nt EXCEPT !.sink = Append(@, outcome),
             !.alert = IF outcome = "ok" THEN @ ELSE FetchFailedText]

\* logToMlflow after its await (lines 572-578): the response is not read,
\* and an error of fetch goes to console.error only
Reported(nt, outcome) == [nt EXCEPT !.sink = Append(@, outcome)]

\* The sink answers the report in flight, or its request fails
LogReturn(outcome) ==
  /\ Len(net.sink) < Len(net.log)
  /\ net' = Reported(net, outcome)
  /\ UNCHANGED <<pc, sessions, rd, turn, currentSessionId, isLoading, isSyncing, config,
                 mcpServers, now, polled, reg, pending, wf>>

SinkOutcomes == {"throw", "notok", "ok"}

\* Turns with an endpoint that may be online, whose reports the sink answers
\* in every way
NextReport ==
  \/ \E outcomes \in [1..Len(mcpServers) -> ProbeOutcomes] : PollCycle(outcomes)
  \/ \E text \in UserInputs : now <= MaxSends /\ SendFrom(text, TRUE)
  \/ Augment(FALSE, <<>>)
  \/ \E outcome \in ListOutcomes : ListReturn(outcome)
  \/ \E body \in {HelloBody, ThreeCallsBody} : Chat1Return("ok", body)
  \/ \E kind \in {"notok", "throw"} : Chat1Return(kind, <<>>)
  \/ ReadChunk(Len(rd.rest))
  \/ FinishStream1
  \/ \E outcome \in ToolOutcomes : CallReturn(outcome)
  \/ Chat2Return("ok", PlainBody)
  \/ Chat2Return("notok", <<>>)
  \/ FinishStream2
  \/ \E outcome \in SinkOutcomes : LogReturn(outcome)

SpecReport == Init /\ [][NextReport]_vars

\* ------------------------------------------------- replies in plain text

\* What the model writes as its content: prose with blanks around it, braces
\* and brackets that are no call, a tag of a tool that may be in the
\* manifest, and a call in JSON after some prose
ReplyContents ==
  {<<SP, W("Hello"), SP>>,
   <<W("Sure"), SP, LB, W("x"), RB, NL>>,
   <<LS, W("ref"), RS, SP, W("ok")>>,
   <<SP, LS, W("get_weather"), RS>>,
   <<W("So"), SP, LS, W("get_current_time"), RS, SP, W("then")>>,
   <<W("Sure"), SP>> \o JsonCallText \o <<SP, W("now")>>}

ReplyBodies == {JoinLines(<<ContentLine(c), DoneLine("5", "500000000")>>) : c \in ReplyContents}

\* One turn whose first answer is one of these contents, without native
\* tool calls, with tool use on or off
NextReply ==
  \/ now = 1 /\ SendMessage(Text("hi"))
  \/ \E embedded \in BOOLEAN : Augment(embedded, <<>>)
  \/ \E outcome \in ListOutcomes : ListReturn(outcome)
  \/ \E body \in ReplyBodies : Chat1Return("ok", body)
  \/ ReadChunk(Len(rd.rest))
  \/ FinishStream1
  \/ \E outcome \in ToolOutcomes : CallReturn(outcome)
  \/ Chat2Return("ok", PlainBody)
  \/ FinishStream2
  \/ ToggleMcp

SpecReply == Init /\ [][NextReply]_vars

\* ------------------------------------------------------- workflow runs

\* The most steps of a workflow and the most runs of one run of the model.
MaxSteps == 3
MaxRuns == 1

\* The agents state as it starts (lines 267-277, model of line 231)
Agents ==
  <<[id |-> "default-agent", name |-> "Base Assistant", model |-> "qwen2.5:1.5b",
     systemPrompt |-> Text("system")]>>

\* agents.find(a => a.id === agentId): the first agent of that id, else
\* undefined
RECURSIVE FindAgent(_, _)
FindAgent(agents, agentId) ==
  IF agents = <<>> THEN Undef
  ELSE IF Head(agents).id = agentId THEN Head(agents)
  ELSE FindAgent(Tail(agents), agentId)

\* One entry of initialLogs (lines 749-754)
InitialLog(step) ==
  [stepId |-> step.id,
   agentName |-> IF FindAgent(Agents, step.agentId) = Undef THEN "Unknown Agent"
                 ELSE FindAgent(Agents, step.agentId).name,
   output |-> Str(<<>>), status |-> "pending"]

InitialLogs(steps) == [k \in 1..Len(steps) |-> InitialLog(steps[k])]

\* prev.map((log, idx) => idx === i ? {...log, status: 'running'} : log),
\* line 769
MarkRunning(logs, i) ==
  [k \in 1..Len(logs) |-> IF k = i THEN [logs[k] EXCEPT !.status = "running"] ELSE logs[k]]

\* line 797
MarkCompleted(logs, i, result) ==
  [k \in 1..Len(logs) |->
     IF k = i THEN [logs[k] EXCEPT !.output = result, !.status = "completed"] ELSE logs[k]]

\* line 806: every log that is running becomes an error with the message
MarkError(logs, message) ==
  [k \in 1..Len(logs) |->
     IF logs[k].status = "running"
     THEN [logs[k] EXCEPT !.status = "error",
                          !.output = Str(<<W("Execution failed:"), SP>> \o message)]
     ELSE logs[k]]

\* The prompt of a step (line 772)
StepPrompt(input, currentContext, description) ==
  <<W("Workflow Input:"), SP>> \o input
  \o <<NL, NL, W("Context from previous agents:"), SP>> \o StringOf(currentContext)
  \o <<NL, NL, W("Your specific instructions:"), SP>> \o description

\* The request of a step (lines 774-786)
StepRequest(i, agent, prompt) ==
  [step |-> i, model |-> agent.model, system |-> agent.systemPrompt, prompt |-> prompt,
   stream |-> FALSE]

\* The finally block (lines 807-809)
RunEnds(w) == [w EXCEPT !.pc = "idle", !.isWFRunning = FALSE]

\* Mutant of LoopFrom: a step whose agent is not found ends the run
LoopFrom_StopAtMissing(w, i) ==
  IF i > Len(w.steps) THEN RunEnds(w)
  ELSE IF FindAgent(Agents, w.steps[i].agentId) = Undef THEN RunEnds(w)
  ELSE [w EXCEPT !.pc = "wait", !.i = i,
                 !.workflowLogs = MarkRunning(@, i),
                 !.requests = Append(@, StepRequest(i, FindAgent(Agents, w.steps[i].agentId),
                                       StepPrompt(w.input, w.currentContext,
                                                  w.steps[i].description)))]

\* The for loop from step i up to its next await (lines 758-786): a step
\* whose agent is not found is passed over, the first one with an agent is
\* marked running and its request issued; after the last step the run ends.
RECURSIVE LoopFrom(_, _)
LoopFrom(w, i) ==
  IF i > Len(w.steps) THEN RunEnds(w)
  ELSE IF FindAgent(Agents, w.steps[i].agentId) = Undef THEN LoopFrom(w, i + 1)
  ELSE [w EXCEPT !.pc = "wait", !.i = i,
                 !.workflowLogs = MarkRunning(@, i),
                 !.requests = Append(@, StepRequest(i, FindAgent(Agents, w.steps[i].agentId),
                                       StepPrompt(w.input, w.currentContext,
                                                  w.steps[i].description)))]

\* The locals of the run of handleRunWorkflow that w holds
Locals(w) ==
  [pc |-> w.pc, steps |-> w.steps, input |-> w.input, i |-> w.i,
   currentContext |-> w.currentContext, requests |-> w.requests, answers |-> w.answers]

\* isWFRunning as the handleRunWorkflow on screen reads it (line 742): the
\* value of the render that created the handler
SeenRunning == IF wf.stale THEN FALSE ELSE wf.isWFRunning

\* The runs in flight once a new one starts: the one that was latest is
\* overtaken when it has not ended
Overtaken(w) == IF w.pc = "idle" THEN w.prior ELSE <<Locals(w)>> \o w.prior

\* handleRunWorkflow up to its first await (lines 740-786) on a workflow and
\* the input it is run with.  flushed: the state it sets is rendered before
\* the next event is handled.
RunFrom(workflow, finalInput, flushed) ==
  /\ IF Trim(finalInput) = <<>> \/ SeenRunning THEN UNCHANGED vars
     ELSE /\ wf' = LoopFrom([wf EXCEPT !.isWFRunning = TRUE,
                                       !.executingWorkflowId = workflow.id,
                                       !.workflowLogs = InitialLogs(workflow.steps),
                                       !.steps = workflow.steps,
                                       !.input = finalInput,
                                       !.currentContext = Str(finalInput),
                                       !.requests = <<>>, !.answers = <<>>,
                                       !.runs = @ + 1,
                                       !.stale = ~flushed,
                                       !.prior = Overtaken(wf)], 1)
          /\ UNCHANGED <<pc, sessions, rd, turn, currentSessionId, isLoading, isSyncing,
                         config, mcpServers, now, net, polled, reg, pending>>

\* A run requested after the render of the state before it
RunWorkflow(workflow, finalInput) == RunFrom(workflow, finalInput, TRUE)

\* The render that follows the start of a run commits
RenderRun ==
  /\ wf.stale
  /\ wf' = [wf EXCEPT !.stale = FALSE]
  /\ UNCHANGED <<pc, sessions, rd, turn, currentSessionId, isLoading, isSyncing, config,
                 mcpServers, now, net, polled, reg, pending>>

\* data.message.content read from the parsed body, and result.length read
\* from it (lines 793-795): a TypeError when data, data.message or the
\* content is null or undefined
ContentRead(p) ==
  IF ~p.ok THEN Raised(<<W("SyntaxError")>>)
  ELSE IF Nullish(p.val) \/ Nullish(Get(p.val, "message"))
          \/ Nullish(Get(Get(p.val, "message"), "content"))
  THEN Raised(<<W("TypeError")>>)
  ELSE Returned(Get(Get(p.val, "message"), "content"))

\* The try block of a step from the answer to its request (lines 774-795):
\* the content it returns or the error it throws
StepResult(agent, answer) ==
  IF answer.kind = "throw" THEN Raised(FetchFailedText)
  ELSE IF ~answer.ok
  THEN Raised(<<W("Agent"), SP, W(agent.name), SP, W("failed:"), SP>> \o answer.body)
  ELSE ContentRead(JSONParse(answer.body))

\* A step's error is caught and the loop goes on with the next step
Caught_GoOn(w, message) ==
  LoopFrom([w EXCEPT !.workflowLogs = MarkError(@, message)], w.i + 1)

\* The catch and finally blocks (lines 804-809)
Caught(w, message) == RunEnds([w EXCEPT !.workflowLogs = MarkError(@, message)])

\* A step's output is stored and the context is left as it was
AfterStep_KeepContext(w, r) ==
  IF r.raised THEN Caught(w, r.val.txt)
  ELSE [w EXCEPT !.workflowLogs = MarkCompleted(@, w.i, r.val), !.pc = "sleep"]

\* The rest of the pass of the loop on the result of the try block (lines
\* 797-801), up to the delay, or the catch block
AfterStep(w, r) ==
  IF r.raised THEN Caught(w, r.val.txt)
  ELSE [w EXCEPT !.workflowLogs = MarkCompleted(@, w.i, r.val),
                 !.currentContext = r.val,
                 !.pc = "sleep"]

\* The request of the running step is answered
StepReturn(answer) ==
  /\ wf.pc = "wait"
  /\ wf' = AfterStep([wf EXCEPT !.answers = Append(@, answer)],
                     StepResult(FindAgent(Agents, wf.steps[wf.i].agentId), answer))
  /\ UNCHANGED <<pc, sessions, rd, turn, currentSessionId, isLoading, isSyncing, config,
                 mcpServers, now, net, polled, reg, pending>>

\* The delay after a step is over (line 801) and the loop goes on
Wake ==
  /\ wf.pc = "sleep"
  /\ wf' = LoopFrom(wf, wf.i + 1)
  /\ UNCHANGED <<pc, sessions, rd, turn, currentSessionId, isLoading, isSyncing, config,
                 mcpServers, now, net, polled, reg, pending>>

\* w with the locals of its k-th overtaken run in place of those of the
\* latest run, and these in their place
Swap(w, k) ==
  [w EXCEPT !.pc = w.prior[k].pc, !.steps = w.prior[k].steps, !.input = w.prior[k].input,
            !.i = w.prior[k].i, !.currentContext = w.prior[k].currentContext,
            !.requests = w.prior[k].requests, !.answers = w.prior[k].answers,
            !.prior[k] = Locals(w)]

\* The pass of the loop of the run whose locals w holds, on the answer to
\* the request of its running step
Answered(w, answer) ==
  AfterStep([w EXCEPT !.answers = Append(@, answer)],
            StepResult(FindAgent(Agents, w.steps[w.i].agentId), answer))

\* The request of the running step of the k-th overtaken run is answered:
\* its handler goes on as that of the latest run does, on the same state
PriorStepReturn(k, answer) ==
  /\ k \in 1..Len(wf.prior)
  /\ wf.prior[k].pc = "wait"
  /\ wf' = Swap(Answered(Swap(wf, k), answer), k)
  /\ UNCHANGED <<pc, sessions, rd, turn, currentSessionId, isLoading, isSyncing, config,
                 mcpServers, now, net, polled, reg, pending>>

\* The delay after a step of the k-th overtaken run is over
PriorWake(k) ==
  /\ k \in 1..Len(wf.prior)
  /\ wf.prior[k].pc = "sleep"
  /\ wf' = Swap(LoopFrom(Swap(wf, k), wf.prior[k].i + 1), k)
  /\ UNCHANGED <<pc, sessions, rd, turn, currentSessionId, isLoading, isSyncing, config,
                 mcpServers, now, net, polled, reg, pending>>

\* workflowLogs.find(l => l.stepId === stepId): the first log of that step,
\* else undefined
RECURSIVE FindLog(_, _)
FindLog(logs, stepId) ==
  IF logs = <<>> THEN Undef
  ELSE IF Head(logs).stepId = stepId THEN Head(logs)
  ELSE FindLog(Tail(logs), stepId)

\* The Final Workflow Output block of a workflow on screen is rendered (line
\* 2192): the log of the last step of its list is completed
FinalShown(steps, logs) ==
  /\ Len(steps) > 0
  /\ FindLog(logs, steps[Len(steps)].id) # Undef
  /\ FindLog(logs, steps[Len(steps)].id).status = "completed"

\* What the block presents (line 2217), undefined when it is not rendered
FinalResult(steps, logs) ==
  IF FinalShown(steps, logs) THEN Or(FindLog(logs, steps[Len(steps)].id).output, Str(<<>>))
  ELSE Undef

\* A step of a workflow: its agent is the default one or one that is gone
Step(k, agentId) ==
  [id |-> "step-" \o ToString(k), agentId |-> agentId,
   description |-> Text("instruction-" \o ToString(k))]

\* The workflows of 1..MaxSteps steps in which at most one step's agent is
\* gone
Workflows ==
  { [id |-> "wf", steps |-> [k \in 1..n |-> Step(k, IF k = gone THEN "deleted-agent"
                                                     ELSE "default-agent")]] :
      n \in 1..MaxSteps, gone \in 0..MaxSteps }

\* '{"message":{"role":"assistant"}}'
NoContentBody == <<LB, K("message"), LB, K("role"), S(Text("assistant")), RB, RB>>

\* The answers to the request of a step
StepAnswers ==
  {Answer("throw", FALSE, <<>>),
   Answer("response", FALSE, Text("overloaded")),
   Answer("response", TRUE, ContentLine(Text("draft"))),
   Answer("response", TRUE, ContentLine(Text("review"))),
   Answer("response", TRUE, NoContentBody)}

NextWorkflow ==
  \/ \E workflow \in Workflows, input \in UserInputs :
       wf.runs < MaxRuns /\ RunWorkflow(workflow, input)
  \/ \E answer \in StepAnswers : StepReturn(answer)
  \/ Wake

SpecWorkflow == Init /\ [][NextWorkflow]_vars

\* --------------------------------------- run requests before the next render

\* The most run requests of one run of the model.
MaxRequests == 2

\* Two workflows: one step, and two steps
RunWorkflows ==
  {[id |-> "wf-" \o ToString(n), steps |-> [k \in 1..n |-> Step(k, "default-agent")]] :
     n \in 1..2}

\* Runs whose requests may come before the render of the state the request
\* before them has set; the render commits before any request is answered.
NextRuns ==
  \/ \E workflow \in RunWorkflows :
       wf.runs < MaxRequests /\ RunFrom(workflow, Text("hi"), FALSE)
  \/ RenderRun
  \/ ~wf.stale /\ \E answer \in StepAnswers : StepReturn(answer)
  \/ ~wf.stale /\ Wake
  \/ ~wf.stale /\ \E k \in 1..MaxRequests, answer \in StepAnswers : PriorStepReturn(k, answer)
  \/ ~wf.stale /\ \E k \in 1..MaxRequests : PriorWake(k)

SpecRuns == Init /\ [][NextRuns]_vars

\* ------------------------------------------------------ claims: decoder

LastMsg(ss) == ss[1].messages[Len(ss[1].messages)]

\* C1 (as claimed): however the body is cut into reads, readStream returns
\* the content and toolCalls it returns when the body arrives in one read.
C1_ChunkingInvariant ==
  pc = "decoded" =>
    /\ rd.content = ReadWhole(rd.stream).content
    /\ rd.toolCalls = ReadWhole(rd.stream).toolCalls

IsValidLine(line) == Trim(line) # <<>> /\ JSONParse(line).ok
IsCorruptLine(line) == Trim(line) # <<>> /\ ~JSONParse(line).ok

LineContent(line) == Get(Get(JSONParse(line).val, "message"), "content")

RECURSIVE ContentOfValid(_)
ContentOfValid(lines) ==
  IF lines = <<>> THEN <<>>
  ELSE LET rest == ContentOfValid(Tail(lines)) IN
       IF IsValidLine(Head(lines)) /\ Truthy(LineContent(Head(lines)))
       THEN Concat(ToText(LineContent(Head(lines))), rest)
       ELSE rest

\* C2: of the lines readStream iterates over, a non-blank line that is not
\* valid JSON is skipped alone: the returned content is the concatenation,
\* in order, of message.content of the valid lines, and equals the content
\* decoded from the same lines with the corrupt and blank ones left out.
C2_CorruptLineSkippedAlone ==
  pc = "decoded" =>
    /\ rd.content = ContentOfValid(rd.lines)
    /\ rd.content = ReadWhole(JoinLines(SelectSeq(rd.lines, IsValidLine))).content

C2_Witness ==
  /\ pc = "decoded"
  /\ \E i, j \in 1..Len(rd.lines) :
       /\ i < j
       /\ IsCorruptLine(rd.lines[i])
       /\ IsValidLine(rd.lines[j]) /\ Truthy(LineContent(rd.lines[j]))
  /\ \E i \in 1..Len(rd.lines) : rd.lines[i] # <<>> /\ Trim(rd.lines[i]) = <<>>
  /\ rd.content # <<>>

\* eval_duration in half seconds, for the durations of the inputs
HalfSeconds(d) == NumVal(d.s) \div 500000000

UpdateData(u) == JSONParse(u.line).val

IsTerminal(u) == Truthy(Get(UpdateData(u), "done"))

LastStats(updates) ==
  LET with == {i \in 1..Len(updates) : updates[i].stats # Undef}
  IN IF with = {} THEN Undef
     ELSE updates[CHOOSE i \in with : \A k \in with : k <= i].stats

\* C5: a terminal line with eval_count c and eval_duration d > 0 surfaces
\* totalTokens = c and tokensPerSecond = c / (d / 1e9) (100 and 2e9 give 50);
\* a line that is not terminal surfaces no stats, and the stats recorded on
\* the message are those of the last terminal line, whatever follows it.
C5_StatsOfTerminalLine ==
  /\ \A i \in 1..Len(rd.updates) :
       LET u == rd.updates[i]
           c == Get(UpdateData(u), "eval_count")
           d == Get(UpdateData(u), "eval_duration")
       IN /\ ~IsTerminal(u) => u.stats = Undef
          /\ IsTerminal(u) /\ c.t = "num" /\ d.t = "num" /\ NumVal(d.s) > 0 =>
               /\ u.stats.totalTokens = c
               /\ u.stats.tokensPerSecond.k = "rat"
               /\ u.stats.tokensPerSecond.n * HalfSeconds(d)
                    = 2 * NumVal(c.s) * u.stats.tokensPerSecond.d
          /\ IsTerminal(u) /\ c = Num("100") /\ d = Num("2000000000") =>
               u.stats.tokensPerSecond = [k |-> "rat", n |-> 50, d |-> 1]
  /\ LastMsg(sessions).stats = LastStats(rd.updates)

C5_Witness ==
  /\ pc = "decoded"
  /\ \E i, j \in 1..Len(rd.updates) :
       /\ i < j
       /\ IsTerminal(rd.updates[i])
       /\ rd.updates[i].stats.tokensPerSecond = [k |-> "rat", n |-> 200, d |-> 1]
       /\ ~IsTerminal(rd.updates[j])
  /\ LastMsg(sessions).stats # Undef

\* The update is that of a terminal line whose eval_duration is 0 and whose
\* eval_count is a number
ZeroDuration(u) ==
  /\ IsTerminal(u)
  /\ Get(UpdateData(u), "eval_duration") = Num("0")
  /\ Get(UpdateData(u), "eval_count").t = "num"

\* C29 (as claimed): the stats of a terminal line whose eval_duration is 0
\* have tokensPerSecond not-a-number, whatever its eval_count.
C29_ZeroDurationIsNaN ==
  \A i \in 1..Len(rd.updates) :
    ZeroDuration(rd.updates[i]) => rd.updates[i].stats.tokensPerSecond = NaN

\* What holds of C29: such a line raises nothing, its stats are recorded,
\* and tokensPerSecond is not-a-number when eval_count is 0 and infinite when
\* it is positive.
ZeroDurationIsNaNOrInfinity ==
  \A i \in 1..Len(rd.updates) :
    ZeroDuration(rd.updates[i]) =>
      /\ rd.updates[i].stats.totalTokens = Get(UpdateData(rd.updates[i]), "eval_count")
      /\ rd.updates[i].stats.tokensPerSecond =
           IF Get(UpdateData(rd.updates[i]), "eval_count") = Num("0") THEN NaN ELSE Infinity

\* The call slot of an entry of toolCalls: its id
Slot(call) == Get(call, "id")

\* C30 (as claimed): the toolCalls of readStream hold at most one entry per
\* call slot, however many lines carried a fragment of that slot.
C30_OneEntryPerSlot ==
  \A i, j \in 1..Len(rd.toolCalls) :
    i # j /\ Truthy(Slot(rd.toolCalls[i])) => Slot(rd.toolCalls[i]) # Slot(rd.toolCalls[j])

\* ----------------------------------------------------- claims: resolver

SniffedSpan(content) == SubSeq(content, JsonMatch(content).from, JsonMatch(content).to)
SniffedObject(content) == JSONParse(SniffedSpan(content)).val

IsName(val) == val.t = "str" /\ val.txt # <<>>

\* The content holds a JSON object (the span of section 4.2) whose name or
\* function field is a string (a name: not the empty string).
HasNamedObject(content) ==
  /\ JsonMatch(content).found
  /\ JSONParse(SniffedSpan(content)).ok
  /\ \/ IsName(Get(SniffedObject(content), "name"))
     \/ IsName(Get(SniffedObject(content), "function"))

ClaimedName(o) == IF IsName(Get(o, "name")) THEN Get(o, "name") ELSE Get(o, "function")

ClaimedArgs(o) ==
  LET a == Or(Or(Get(o, "arguments"), Get(o, "parameters")), Get(o, "params"))
  IN IF a.t = "arr" THEN (IF a.items # <<>> THEN a.items[1] ELSE EmptyObj)
     ELSE IF a = Undef THEN EmptyObj
     ELSE a

\* C3 (as claimed): with no native tool_calls and a content holding a JSON
\* object whose name (or function) field is a string, the resolver yields
\* exactly one invocation, of that name, with the arguments taken from
\* arguments / parameters / params (first element of an array, an empty
\* object by default), and the span is removed from the content.
C3_JsonSniffResolves ==
  pc = "resolved" /\ turn.native = <<>> /\ HasNamedObject(turn.streamed) =>
    /\ Len(turn.toolCalls) = 1
    /\ CallName(turn.toolCalls[1]) = ClaimedName(SniffedObject(turn.streamed))
    /\ CallArgs(turn.toolCalls[1]) = ClaimedArgs(SniffedObject(turn.streamed))
    /\ turn.content = RemoveSpan(turn.streamed, JsonMatch(turn.streamed).from,
                                 JsonMatch(turn.streamed).to)

BracketName(content) == BracketMatch(content).name

\* C4: a BracketSniff invocation names a tool of the turn's manifest, the
\* one between the brackets; "[get_current_time]" resolves to one invocation
\* with empty arguments when the manifest holds that name, and to none, with
\* the content as it was, when it does not.
C4_BracketNeedsManifest ==
  pc = "resolved" =>
    /\ turn.tier = "BracketSniff" =>
         /\ Len(turn.toolCalls) = 1
         /\ BracketMatch(turn.streamed).found
         /\ CallName(turn.toolCalls[1]) = NameStr(BracketName(turn.streamed))
         /\ BracketName(turn.streamed) \in ToolNames(turn.mcpTools)
    /\ turn.native = <<>> /\ turn.streamed = <<LS, W("get_current_time"), RS>> =>
         IF "get_current_time" \in ToolNames(turn.mcpTools)
         THEN /\ Len(turn.toolCalls) = 1
              /\ CallName(turn.toolCalls[1]) = NameStr("get_current_time")
              /\ CallArgs(turn.toolCalls[1]) = EmptyObj
         ELSE turn.toolCalls = <<>> /\ turn.content = turn.streamed
    /\ /\ turn.native = <<>>
       /\ ~HasNamedObject(turn.streamed)
       /\ BracketMatch(turn.streamed).found
       /\ BracketName(turn.streamed) \notin ToolNames(turn.mcpTools)
       => turn.toolCalls = <<>> /\ turn.content = turn.streamed

\* What the JSON tier gives on the streamed content of the turn
JsonTier == JsonSniff(turn.streamed, turn.time)

\* What the bracket tier gives on it
BracketTier == BracketSniff(turn.streamed, ToolNames(turn.mcpTools), turn.time)

\* C24: the tiers are tried in order.  Native tool calls are used as they
\* are and the content stays the streamed one; the JSON tier decides only
\* when there are none, and then its call and its content are the result;
\* the bracket tier decides only when there are none and the JSON tier
\* found no call.
C24_TiersInPrecedence ==
  pc = "resolved" =>
    /\ turn.native # <<>> =>
         turn.tier = "Native" /\ turn.toolCalls = turn.native /\ turn.content = turn.streamed
    /\ turn.native = <<>> /\ JsonTier.toolCalls # <<>> =>
         /\ turn.tier = "JsonSniff"
         /\ turn.toolCalls = JsonTier.toolCalls
         /\ turn.content = JsonTier.content
    /\ turn.tier = "JsonSniff" => turn.native = <<>>
    /\ turn.tier = "BracketSniff" =>
         /\ turn.native = <<>> /\ JsonTier.toolCalls = <<>>
         /\ turn.toolCalls = BracketTier.toolCalls
         /\ turn.content = BracketTier.content

\* The content holds a call in JSON after a bracket tag of a tool of the
\* manifest, and the JSON tier has decided
C24_Witness ==
  /\ pc = "resolved"
  /\ turn.native = <<>>
  /\ turn.tier = "JsonSniff"
  /\ BracketTier.toolCalls # <<>>
  /\ Len(turn.toolCalls) = 1
  /\ Includes(turn.content, W("get_weather")) /\ Includes(turn.content, LS)

C4_Witness ==
  /\ pc = "resolved"
  /\ turn.streamed = <<LS, W("get_current_time"), RS>>
  /\ turn.tier = "BracketSniff"
  /\ Len(turn.toolCalls) = 1
  /\ turn.content = <<>>


\* ---------------------------------------------- claims: conversation loop

\* The tool calls an assistant message carries, none when it has no such field
CallsOf(m) == IF m.tool_calls.t = "arr" THEN m.tool_calls.items ELSE <<>>

\* C6: in every transcript each tool message carries a tool_call_id that is
\* the id of an entry of the tool_calls of an assistant message before it.
C6_ToolMessagesMatchCalls ==
  \A s \in 1..Len(sessions) :
    LET m == sessions[s].messages IN
    \A i \in 1..Len(m) :
      m[i].role = "tool" =>
        \E j \in 1..(i - 1) :
          /\ m[j].role = "assistant"
          /\ \E k \in 1..Len(CallsOf(m[j])) : Get(CallsOf(m[j])[k], "id") = m[i].tool_call_id

\* The follow-up response has been read to its end and the turn is over.
SecondAnswerRead ==
  /\ pc = "idle"
  /\ Len(net.chat) = 2
  /\ rd.rest = <<>>
  /\ \E k \in 1..Len(rd.toolCalls) : Get(rd.toolCalls[k], "id") = Str(Text("c3"))

\* C7: a turn issues at most two chat requests, and once the follow-up
\* request is out nothing is resolved or executed any more: the resolved list
\* is that of the first response, every tools/call was answered before the
\* follow-up request and is in its history, and what the second response
\* asks for stays in the answer as text.
C7_OneToolRound ==
  /\ Len(net.chat) <= 2
  /\ Len(net.chat) = 2 =>
       /\ pc \in {"chat2_wait", "stream2", "idle"}
       /\ net.open = 0
       /\ turn.toolCalls = Resolve(turn.streamed, turn.native, ToolNames(turn.mcpTools),
                                   turn.time).toolCalls
       /\ Len(net.calls) = Len(net.chat[2].messages) - Len(net.chat[1].messages) - 1
       /\ Len(turn.toolResponses) = Len(net.calls)
  /\ SecondAnswerRead =>
       /\ turn.content = rd.content
       /\ LastMsg(sessions).content = rd.content

C7_Witness ==
  /\ SecondAnswerRead
  /\ JsonMatch(rd.content).found
  /\ Len(net.calls) = 1
  /\ turn.tier = "BracketSniff"

\* The invocations of the resolved list that have a tool definition
ExecIndices == {i \in 1..Len(turn.toolCalls) :
                  ToolIndex(turn.mcpTools, CallName(turn.toolCalls[i])) # 0}

\* C8: the k-th tools/call of a turn is for the k-th invocation of the
\* resolved list that has a tool definition, with its name and arguments; at
\* most one request is open, and only while the loop waits for it; every
\* answer has added one tool response; and when the follow-up request goes
\* out each such invocation has had exactly one request.
C8_CallsInOrderOneAtATime ==
  LET n == Len(net.calls) IN
  /\ net.open \in {0, 1}
  /\ net.open = 1 <=> pc = "call_wait"
  /\ \A i \in 1..n :
       LET j == net.calls[i].index IN
       /\ j \in ExecIndices
       /\ Cardinality({e \in ExecIndices : e <= j}) = i
       /\ net.calls[i].name = CallName(turn.toolCalls[j])
       /\ net.calls[i].args = CallArgs(turn.toolCalls[j])
  /\ Len(turn.toolResponses) = n - net.open
  /\ Len(net.chat) = 2 => n = Cardinality(ExecIndices)

C8_Witness ==
  /\ Len(net.chat) = 2
  /\ Len(net.calls) = 2
  /\ net.calls[1].index = 2
  /\ net.calls[2].index = 3
  /\ net.answers = <<ToolThrow, ToolResponse(TRUE, ContentResultBody)>>
  /\ turn.toolResponses[2].content = Text("12:00")

\* C9: the follow-up request carries the history of the first request, then
\* the assistant message with the tool calls the model sent, then one tool
\* message per tools/call, in the order of the calls.
C9_FollowUpAfterHistory ==
  Len(net.chat) = 2 =>
    LET base == net.chat[1].messages
        h == net.chat[2].messages
        n == Len(base)
    IN /\ Len(h) = n + 1 + Len(net.calls)
       /\ SubSeq(h, 1, n) = base
       /\ h[n + 1].role = "assistant"
       /\ turn.native # <<>> => h[n + 1].tool_calls = Arr(turn.native)
       /\ \A i \in 1..Len(net.calls) :
            /\ h[n + 1 + i].role = "tool"
            /\ h[n + 1 + i].tool_call_id =
                 ToolCallId(turn.toolCalls[net.calls[i].index], net.calls[i].index, turn.time)

NoJsonAnswer(outcome) == outcome.kind = "throw" \/ ~JSONParse(outcome.body).ok

\* C11: whatever a tools/call is answered (no response, a text that is not
\* JSON, a response of a non-success status, a result of any shape),
\* executeMcpTool throws nothing: each answer has given one tool message with
\* a text content (the error text when there was no JSON answer, the text of
\* the first content item when the result has one), the loop has gone on, and
\* once the last call is answered the follow-up request is out with these
\* tool messages at its end.
C11_ExecutorNeverRaises ==
  LET n == Len(net.answers) IN
  /\ Len(turn.toolResponses) = n
  /\ \A i \in 1..n :
       LET content == turn.toolResponses[i].content IN
       /\ turn.toolResponses[i].role = "tool"
       /\ NoJsonAnswer(net.answers[i]) =>
            /\ Len(content) > Len(ToolErrorText(<<>>))
            /\ SubSeq(content, 1, Len(ToolErrorText(<<>>))) = ToolErrorText(<<>>)
       /\ net.answers[i].body = ContentResultBody => content = Text("12:00")
  /\ n > 0 =>
       \/ pc = "call_wait" /\ net.open = 1 /\ Len(net.calls) = n + 1
       \/ /\ Len(net.chat) = 2
          /\ Len(net.calls) = n
          /\ LET h == net.chat[2].messages
             IN SubSeq(h, Len(h) - n + 1, Len(h)) = turn.toolResponses

C11_Witness ==
  /\ pc = "idle"
  /\ Len(net.chat) = 2
  /\ net.answers = <<ToolThrow, ToolResponse(FALSE, <<W("Internal"), SP, W("Server"), SP, W("Error")>>)>>
  /\ LastMsg(sessions).content = Text("Done")

\* ---------------------------------------------- claims: failure of a turn

\* The first chat request of the turn got no response, or one that is not ok
PrimaryFailed == net.replies # <<>> /\ net.replies[1] # "ok"

\* C12: when the first chat request fails in transport or is answered with
\* a non-success status, the turn is over: the handler is idle with the
\* loading flag false, it has issued that one chat request and no tools/call
\* and no report to the observability endpoint, and the transcript is the one
\* the turn began with, its user message last.
C12_PrimaryFailureAbandonsTurn ==
  PrimaryFailed =>
    /\ pc = "idle"
    /\ ~isLoading
    /\ Len(net.chat) = 1
    /\ net.calls = <<>>
    /\ net.log = <<>>
    /\ net.alert # <<>>
    /\ MessagesOf(sessions, turn.sessionId) = turn.messages
    /\ LastRole(turn.messages) = "user"

C12_Witness ==
  /\ PrimaryFailed
  /\ net.replies = <<"notok">>
  /\ turn.mcpTools # <<>>
  /\ turn.servers[1].status = "online"

\* --------------------------------------------------- claims: memory steps

\* A request that was issued and failed: no response, or one that is not ok
RequestFailed(a) == a.kind = "throw" \/ (a.kind = "response" /\ ~a.ok)

MemoryFailed(m) ==
  \/ RequestFailed(m.embed) \/ RequestFailed(m.check) \/ RequestFailed(m.create)
  \/ RequestFailed(m.search) \/ RequestFailed(m.upsert)

\* A search that was answered with a success status gave hits of the shape
\* the handler reads
SuccessWellFormed(m) ==
  m.search.kind = "response" /\ m.search.ok => ~ContextOf(SearchQdrant(m.search)).raised

\* C13 (as claimed): when any of the memory requests has failed the turn goes
\* on to the tool fetch and the first chat request, and when the embedding or
\* the search has failed the system prompt of that request carries no memory
\* context.
C13_MemoryFailureDegrades ==
  MemoryFailed(turn.mem) /\ SuccessWellFormed(turn.mem) =>
    /\ pc = "list_wait" \/ net.chat # <<>>
    /\ RequestFailed(turn.mem.embed) \/ RequestFailed(turn.mem.search) =>
         /\ turn.contextString = <<>>
         /\ net.chat # <<>> =>
              net.chat[1].messages[1].content = SystemPrompt(<<>>, turn.mcpTools)

\* A search that failed gave no result list: it had no response, or a body
\* without a result
FailureWithoutResult(m) == RequestFailed(m.search) => SearchQdrant(m.search) = Arr(<<>>)

\* What holds of C13: the same, unless the search was answered with a
\* non-success status and a body that carries a result.
MemoryFailureDegradesWithoutResult ==
  MemoryFailed(turn.mem) /\ SuccessWellFormed(turn.mem) /\ FailureWithoutResult(turn.mem) =>
    /\ pc = "list_wait" \/ net.chat # <<>>
    /\ RequestFailed(turn.mem.embed) \/ RequestFailed(turn.mem.search) =>
         turn.contextString = <<>>

\* -------------------------------------------------------- claims: registry

\* A probe that failed: no response, a response that is not ok, or a body
\* that is not JSON
ProbeFailed(outcome) == outcome.kind \in {"throw", "notok"} \/ ~outcome.json

\* The step ends a poll cycle; reg'.last then holds its closure and answers
PollEnds == reg.polling /\ ~reg'.polling

\* The endpoints a step keeps
Kept == 1..(IF Len(mcpServers) < Len(mcpServers') THEN Len(mcpServers) ELSE Len(mcpServers'))

\* C14 (as claimed): an endpoint goes from online to offline only in the step
\* that ends a poll cycle in which its probe failed, and the end of a cycle
\* leaves the record of an offline endpoint whose probe failed as it was.
C14_Step ==
  /\ \A i \in Kept :
       mcpServers[i].status = "online" /\ mcpServers'[i].status = "offline" =>
         /\ PollEnds
         /\ i <= Len(reg'.last.outcomes)
         /\ ProbeFailed(reg'.last.outcomes[i])
  /\ PollEnds =>
       \A i \in Kept :
         /\ i <= Len(reg'.last.outcomes)
         /\ ProbeFailed(reg'.last.outcomes[i])
         /\ mcpServers[i].status = "offline"
         /\ reg'.last.before[i].status = "offline"
         => mcpServers'[i] = mcpServers[i]

C14_OfflineOnlyByFailedProbe == [][C14_Step]_vars

\* The record of an endpoint that is offline with nothing cached
OfflineCleared(server) ==
  server.status = "offline" /\ server.tools = <<>> /\ server.toolCount = 0

C27_Step ==
  PollEnds =>
    \A i \in Kept :
      i <= Len(reg'.last.outcomes) /\ ProbeFailed(reg'.last.outcomes[i])
        => OfflineCleared(mcpServers'[i])

\* C27 (as claimed): when a poll cycle ends, every endpoint whose probe
\* failed (no response, a response that is not ok, a body that is not JSON)
\* is offline with no cached tools.
C27_FailedProbeIsOffline == [][C27_Step]_vars

C27_TransportStep ==
  PollEnds /\ mcpServers' # mcpServers =>
    \A i \in Kept :
      /\ i <= Len(reg'.last.outcomes)
      /\ reg'.last.outcomes[i].kind = "throw" \/ ~reg'.last.outcomes[i].json
      /\ reg'.last.outcomes[i].kind # "notok"
      => OfflineCleared(mcpServers'[i])

\* What holds of C27: a cycle that writes the endpoint set leaves offline,
\* with nothing cached, every endpoint whose request failed or whose response
\* was ok with a body that is not JSON.
TransportFailureIsOffline == [][C27_TransportStep]_vars

\* A probe that succeeded: a response that is ok, with a JSON body
ProbeSucceeded(outcome) == outcome.kind = "ok" /\ outcome.json

\* The endpoint set holds for endpoint i what the probe returned
CachesReturned(i, outcome) ==
  /\ i <= Len(mcpServers)
  /\ mcpServers[i].status = "online"
  /\ mcpServers[i].tools = outcome.tools
  /\ mcpServers[i].toolCount = Len(outcome.tools)

\* C15 (as claimed): when a poll cycle has ended, every endpoint whose probe
\* succeeded is online and caches the list and the count the probe returned.
C15_SuccessfulProbeReplaces ==
  reg.last.kind = "poll" =>
    \A i \in 1..Len(reg.last.outcomes) :
      ProbeSucceeded(reg.last.outcomes[i]) => CachesReturned(i, reg.last.outcomes[i])

\* C16: when a poll cycle has ended, every endpoint that was offline for the
\* cycle and whose probe succeeded is online and caches the list and the
\* count the probe returned, whatever it cached before.
C16_OfflineProbedReplaces ==
  reg.last.kind = "poll" =>
    \A i \in 1..Len(reg.last.outcomes) :
      reg.last.before[i].status = "offline" /\ ProbeSucceeded(reg.last.outcomes[i])
      => CachesReturned(i, reg.last.outcomes[i])

C16_Witness ==
  /\ reg.last.kind = "poll"
  /\ Len(reg.last.before) = 2
  /\ reg.last.before[2].status = "offline"
  /\ reg.last.outcomes[2] = Probe("ok", TRUE, <<"get_weather">>)
  /\ mcpServers[2].tools = <<"get_weather">>

\* C17 (as claimed): a registration has sent one probe to its URL, and when
\* it has ended the endpoint set is the one it found plus one endpoint with
\* that URL: online with the tools and the count the probe returned when the
\* probe succeeded, offline with count 0 when it failed.
C17_RegistrationAddsOne ==
  /\ reg.registering =>
       /\ reg.regUrl # ""
       /\ reg.probes[Len(reg.probes)].url = reg.regUrl
  /\ reg.last.kind = "register" =>
       LET outcome == reg.last.outcomes[1]
           n == Len(reg.last.before)
       IN /\ Len(mcpServers) = n + 1
          /\ SubSeq(mcpServers, 1, n) = reg.last.before
          /\ mcpServers[n + 1].url = reg.last.url
          /\ ProbeSucceeded(outcome) => CachesReturned(n + 1, outcome)
          /\ ProbeFailed(outcome) =>
               mcpServers[n + 1].status = "offline" /\ mcpServers[n + 1].toolCount = 0

\* ------------------------------------------------- claims: one turn at a time

\* C18 (as claimed): a turn begins only when no turn is running, so a send
\* made while a turn runs starts nothing, also when it comes before the
\* loading flag the running turn has set is rendered.
C18_Step == turn'.time # turn.time => pc = "idle" /\ ~isLoading

C18_OneTurnInFlight == [][C18_Step]_vars

\* What holds of C18: a send that is handled after the render of the loading
\* flag starts no turn while one is running.
SendAfterRenderStartsNothing == [][turn'.time # turn.time /\ ~pending.on => pc = "idle"]_vars

\* ------------------------------------------------ claims: bounded requests

\* The request ends by itself when the endpoint never answers
Bounded(request) == request.timeout > 0

\* C19 (as claimed): every tools/list of the poller, of a registration and of
\* a turn, and every tools/call, is bounded by a timeout, so none of them
\* waits for ever for an endpoint that never answers.
C19_ToolRequestsBounded ==
  /\ \A i \in 1..Len(polled) : Bounded(polled[i])
  /\ \A i \in 1..Len(reg.probes) : Bounded(reg.probes[i])
  /\ \A i \in 1..Len(net.lists) : Bounded(net.lists[i])
  /\ \A i \in 1..Len(net.calls) : Bounded(net.calls[i])

\* What holds of C19: the probes of the poller are bounded.
PollProbesBounded == \A i \in 1..Len(polled) : polled[i].timeout = PollTimeoutMs

\* ------------------------------------------------------ claims: workflow

\* The k-th request of the run failed: fetch rejected or the response was
\* not a success
StepFailed(k) == wf.answers[k].kind = "throw" \/ ~wf.answers[k].ok

HasAgent(j) == FindAgent(Agents, wf.steps[j].agentId) # Undef

\* What the run shows once step i has failed
AbortedAt(i) ==
  /\ ~wf.isWFRunning
  /\ \A q \in 1..Len(wf.requests) : wf.requests[q].step <= i
  /\ wf.workflowLogs[i].status = "error"
  /\ Len(wf.workflowLogs[i].output.txt) > Len(<<W("Execution failed:"), SP>>)
  /\ \A j \in (i + 1)..Len(wf.workflowLogs) :
       wf.workflowLogs[j].status = "pending" /\ wf.workflowLogs[j].output = Str(<<>>)
  /\ \A j \in 1..(i - 1) : HasAgent(j) => wf.workflowLogs[j].status = "completed"

\* C20: a step whose request fails (transport failure or non-success
\* response) aborts the run: its log is an error with a message, the logs of
\* the steps before it are completed, those of the steps after it stay
\* pending, and no request is issued for any step after it.
C20_FailingStepAbortsRun ==
  \A k \in 1..Len(wf.answers) :
    StepFailed(k) => k = Len(wf.requests) /\ AbortedAt(wf.requests[k].step)

\* A 3-step workflow whose step 2 got a non-success response
C20_Witness ==
  /\ Len(wf.steps) = 3
  /\ Len(wf.answers) = 2
  /\ wf.answers[1].ok
  /\ wf.answers[2] = Answer("response", FALSE, Text("overloaded"))
  /\ [j \in 1..3 |-> wf.workflowLogs[j].status] = <<"completed", "error", "pending">>
  /\ [q \in 1..Len(wf.requests) |-> wf.requests[q].step] = <<1, 2>>

\* The content of the k-th answer of the run, as the model wrote it
RawOutput(k) == Get(Get(JSONParse(wf.answers[k].body).val, "message"), "content")

\* The context the q-th request of the run is due: the input of the run for
\* the first, else the output the request before it got
ContextDue(q) == IF q = 1 THEN Str(wf.input) ELSE RawOutput(q - 1)

\* C21: the steps of a run are requested one at a time in the order of the
\* list; the prompt of each holds the input of the run, the raw output of
\* the step completed before it (the input for the first) and its own
\* instruction; a step that succeeds has a completed log holding its raw
\* output.
C21_StepsInOrderContextThreaded ==
  /\ Len(wf.requests) - Len(wf.answers) \in {0, 1}
  /\ \A q \in 1..Len(wf.requests) :
       /\ q > 1 => wf.requests[q - 1].step < wf.requests[q].step
       /\ wf.requests[q].prompt =
            StepPrompt(wf.input, ContextDue(q), wf.steps[wf.requests[q].step].description)
  /\ \A k \in 1..Len(wf.answers) :
       ~StepFailed(k) /\ wf.workflowLogs[wf.requests[k].step].status = "completed"
         => wf.workflowLogs[wf.requests[k].step].output = RawOutput(k)

\* The third step of a workflow is asked with the output of the second, which
\* is not the output of the first
C21_Witness ==
  /\ Len(wf.requests) = 3
  /\ wf.requests[3].step = 3
  /\ RawOutput(1) = Str(Text("draft"))
  /\ RawOutput(2) = Str(Text("review"))
  /\ wf.workflowLogs[2].status = "completed"
  /\ wf.workflowLogs[2].output = Str(Text("review"))

\* The run has ended
RunOver == wf.runs > 0 /\ wf.pc = "idle"

\* The run was aborted: one of its logs is an error
Aborted == \E j \in 1..Len(wf.workflowLogs) : wf.workflowLogs[j].status = "error"

IsCompleted(j) == wf.workflowLogs[j].status = "completed"

\* The last step of the list that was completed, 0 when there is none
LastCompleted ==
  IF \E j \in 1..Len(wf.workflowLogs) : IsCompleted(j)
  THEN CHOOSE j \in 1..Len(wf.workflowLogs) :
         IsCompleted(j) /\ \A m \in (j + 1)..Len(wf.workflowLogs) : ~IsCompleted(m)
  ELSE 0

\* C22 (as claimed): once a run is over, an aborted run presents no final
\* result, and a run that was not aborted presents the output of the last
\* step it completed.
C22_FinalResultIsLastCompleted ==
  RunOver =>
    /\ Aborted => FinalResult(wf.steps, wf.workflowLogs) = Undef
    /\ ~Aborted /\ LastCompleted > 0
         => FinalResult(wf.steps, wf.workflowLogs) = wf.workflowLogs[LastCompleted].output

\* What holds of C22: an aborted run presents nothing, and a run whose last
\* step has an agent presents the output of the last step it completed.
FinalResultOfLastStep ==
  RunOver =>
    /\ Aborted => FinalResult(wf.steps, wf.workflowLogs) = Undef
    /\ ~Aborted /\ LastCompleted > 0 /\ HasAgent(Len(wf.steps))
         => FinalResult(wf.steps, wf.workflowLogs) = wf.workflowLogs[LastCompleted].output

\* ---------------------------------------------- claims: replies in text

\* The content of the last message of the session of the turn
ShownContent(ss, sid) == MessagesOf(ss, sid)[Len(MessagesOf(ss, sid))].content

C25_Step ==
  pc = "stream1" /\ pc' # "stream1" /\ turn'.toolCalls = <<>> =>
    /\ turn'.content = rd.content
    /\ ShownContent(sessions', turn'.sessionId) = rd.content
    /\ LastRole(MessagesOf(sessions', turn'.sessionId)) = "assistant"
    /\ net'.calls = <<>>
    /\ Len(net'.chat) = 1
    /\ pc' = "idle" /\ ~isLoading'

\* C25: when readStream has returned and no tier gives an invocation, the
\* content of the turn is the streamed content, token for token, it is the
\* content of the last message of the transcript, no tools/call and no second
\* chat request is issued, and the turn is over.
C25_NoInvocationLeavesContent == [][C25_Step]_vars

\* A reply with blanks around it has ended a turn
C25_Witness ==
  /\ pc = "idle"
  /\ net.replies = <<"ok">>
  /\ turn.streamed = <<SP, W("Hello"), SP>>
  /\ turn.content = <<SP, W("Hello"), SP>>
  /\ turn.toolCalls = <<>>

\* span occurs in content
RECURSIVE HoldsSpan(_, _)
HoldsSpan(content, span) ==
  /\ Len(content) >= Len(span)
  /\ \/ SubSeq(content, 1, Len(span)) = span
     \/ HoldsSpan(Tail(content), span)

\* The span of the streamed content the tier of the turn has matched
MatchedSpan ==
  IF turn.tier = "JsonSniff" THEN SniffedSpan(turn.streamed)
  ELSE SubSeq(turn.streamed, BracketMatch(turn.streamed).from, BracketMatch(turn.streamed).to)

\* Where that span is in the streamed content
MatchedAt ==
  IF turn.tier = "JsonSniff" THEN JsonMatch(turn.streamed) ELSE BracketMatch(turn.streamed)

\* The prose before and after the span, trimmed
ProseAround ==
  Trim(SubSeq(turn.streamed, 1, MatchedAt.from - 1)
       \o SubSeq(turn.streamed, MatchedAt.to + 1, Len(turn.streamed)))

\* The turn is over and the JSON or the bracket tier had accepted a call
SniffedTurnOver ==
  /\ pc = "idle"
  /\ turn.tier \in {"JsonSniff", "BracketSniff"}
  /\ Len(net.chat) = 2
  /\ net.alert = <<>>

\* C26 (as claimed): once a turn in which the JSON or the bracket tier
\* accepted a call is over, no message of its transcript holds the matched
\* span.
C26_SniffedSpanNotShown ==
  SniffedTurnOver =>
    \A i \in 1..Len(MessagesOf(sessions, turn.sessionId)) :
      ~HoldsSpan(MessagesOf(sessions, turn.sessionId)[i].content, MatchedSpan)

\* What holds of C26: the message of the tool round has the content without
\* the span, the prose around it kept and trimmed, and the follow-up request
\* holds it and no message with the span.
SpanRemovedInCallMessage ==
  SniffedTurnOver =>
    /\ ~HoldsSpan(ProseAround, MatchedSpan)
    /\ net.chat[2].messages[Len(net.chat[2].messages) - Len(turn.toolResponses)].content
         = ProseAround
    /\ \A i \in 1..Len(net.chat[2].messages) :
         ~HoldsSpan(net.chat[2].messages[i].content, MatchedSpan)

\* The functions a chat request offers, none when it has no tools field
Offered(request) == IF request.tools = Undef THEN <<>> ELSE request.tools.items

\* C28: every chat request of a turn, the first and the follow-up, has a
\* tools field exactly when tool use was on for the turn and its manifest is
\* not empty, and the field then names the tools of the manifest, one entry
\* each.
C28_ToolsFieldWhenEnabledAndManifest ==
  \A q \in 1..Len(net.chat) :
    /\ net.chat[q].tools # Undef <=> turn.mcpEnabled /\ turn.mcpTools # <<>>
    /\ net.chat[q].tools # Undef =>
         /\ Len(Offered(net.chat[q])) = Len(turn.mcpTools)
         /\ \A i \in 1..Len(turn.mcpTools) :
              Offered(net.chat[q])[i] = NameStr(turn.mcpTools[i].name)

\* A first and a follow-up request that offer the manifest
C28_Witness ==
  /\ Len(net.chat) = 2
  /\ net.chat[1].tools # Undef
  /\ net.chat[2].tools = net.chat[1].tools
  /\ turn.mcpTools # <<>>

\* ---------------------------------------------- claims: observability

\* The report a step issues
NewReport == net'.log[Len(net'.log)]

C23_Step ==
  /\ Len(net'.log) > Len(net.log) =>
       /\ Len(net'.log) = 1
       /\ pc' = "idle" /\ ~isLoading'
       /\ net'.alert = <<>>
       /\ NewReport.input = turn'.userInput
       /\ NewReport.output = turn'.content
       /\ NewReport.output = ShownContent(sessions', turn'.sessionId)
  /\ Len(net'.sink) > Len(net.sink) =>
       /\ pc = "idle" /\ ~isLoading
       /\ <<pc, sessions, turn, isLoading, net.alert>>' = <<pc, sessions, turn, isLoading, net.alert>>

\* C23: a report goes to the sink only in the step that ends a turn without
\* error, one per turn, with the input and the final content of that turn,
\* and the turn is over without waiting for the sink; whatever the sink
\* answers (failure of the request, non-success response, success), the
\* transcript, the loading flag and the alert stay as they are.
C23_ReportBestEffort == [][C23_Step]_vars

\* The sink has failed a report after a tool round
C23_Witness ==
  /\ net.log # <<>>
  /\ net.sink \in {<<"throw">>, <<"notok">>}
  /\ Len(net.chat) = 2
  /\ net.alert = <<>>

\* -------------------------------------------------------- claims: overlay

\* The overlay supplies the member
Supplies(overlay, key) == Get(overlay, key) # Undef

\* The number a supplied value stands for: itself, or what a decimal text
\* denotes
Denoted(val) == IF val.t = "str" THEN Num(val.txt[1].v) ELSE val

\* A value that is a number or the text of one
Numeric(val) ==
  \/ val.t = "num"
  \/ val.t = "str" /\ Len(val.txt) = 1 /\ IsWord(val.txt[1]) /\ val.txt[1].v \in DecimalWords

\* The probe of the one endpoint of the cycle that ends
EndedProbe == reg'.last.outcomes[1]

\* The fields no overlay names
OthersKept == config'.mcpEnabled = config.mcpEnabled /\ config'.ollamaUrl = config.ollamaUrl

C31_Step ==
  PollEnds /\ Len(reg'.last.outcomes) = 1 =>
    IF ProbeSucceeded(EndedProbe) /\ EndedProbe.configs # Undef
    THEN /\ OthersKept
         /\ config'.systemPrompt =
              IF Supplies(EndedProbe.configs, "system_prompt")
              THEN Get(EndedProbe.configs, "system_prompt") ELSE config.systemPrompt
         /\ config'.model =
              IF Supplies(EndedProbe.configs, "model")
              THEN Get(EndedProbe.configs, "model") ELSE config.model
         /\ Supplies(EndedProbe.configs, "temperature")
            /\ Numeric(Get(EndedProbe.configs, "temperature")) =>
                config'.temperature = Denoted(Get(EndedProbe.configs, "temperature"))
         /\ ~Supplies(EndedProbe.configs, "temperature") =>
              config'.temperature = config.temperature
         /\ Supplies(EndedProbe.configs, "top_k")
            /\ Get(EndedProbe.configs, "top_k").s = IntPart(Get(EndedProbe.configs, "top_k").s) =>
                config'.topK = Get(EndedProbe.configs, "top_k")
         /\ ~Supplies(EndedProbe.configs, "top_k") => config'.topK = config.topK
    ELSE config' = config

\* C31 (as claimed): when the cycle of one endpoint ends with a successful
\* probe that carries an overlay, each field the overlay supplies has the
\* overlay's value (a number, where the overlay gives the text of one) and
\* every other field of the configuration is as before; any other probe
\* leaves the configuration as it was.
C31_OverlaySuppliedFieldsOnly == [][C31_Step]_vars

\* The overlay supplies the member with a truthy value
Given(overlay, key) == Truthy(Get(overlay, key))

C31_TruthyStep ==
  PollEnds /\ Len(reg'.last.outcomes) = 1 =>
    IF ProbeSucceeded(EndedProbe) /\ EndedProbe.configs # Undef
    THEN /\ OthersKept
         /\ config'.systemPrompt =
              IF Given(EndedProbe.configs, "system_prompt")
              THEN Get(EndedProbe.configs, "system_prompt") ELSE config.systemPrompt
         /\ config'.model =
              IF Given(EndedProbe.configs, "model")
              THEN Get(EndedProbe.configs, "model") ELSE config.model
         /\ Given(EndedProbe.configs, "temperature")
            /\ Numeric(Get(EndedProbe.configs, "temperature")) =>
              config'.temperature = Denoted(Get(EndedProbe.configs, "temperature"))
         /\ ~Given(EndedProbe.configs, "temperature") =>
              config'.temperature = config.temperature
         /\ Given(EndedProbe.configs, "top_k") =>
              config'.topK = Num(IntPart(Get(EndedProbe.configs, "top_k").s))
         /\ ~Given(EndedProbe.configs, "top_k") => config'.topK = config.topK
    ELSE config' = config

\* What holds of C31: the fields the overlay gives a truthy value take it
\* (top-k its integer part), every other field is as before, and a probe
\* that failed or has no overlay leaves the configuration as it was.
OverlayTruthyFieldsOnly == [][C31_TruthyStep]_vars

\* --------------------------------------------------- claims: poll writes

\* The endpoint set the cycle that ends has computed, from the answers and
\* the endpoint set its closure held
Snapshot == UpdatedServers(reg'.last.before, reg'.last.outcomes)

\* Probing left the status and the tools of every endpoint as they were
NothingNew ==
  \A i \in 1..Len(reg'.last.before) :
    /\ Snapshot[i].status = reg'.last.before[i].status
    /\ Snapshot[i].tools = reg'.last.before[i].tools

C32_Step ==
  PollEnds =>
    /\ reg'.last.wrote => Snapshot # reg'.last.before /\ Snapshot # mcpServers
    /\ ~reg'.last.wrote => mcpServers' = mcpServers
    /\ NothingNew => ~reg'.last.wrote

C35_OfflineCachesNothing ==
  \A i \in 1..Len(mcpServers) :
    /\ mcpServers[i].status = "offline" => OfflineCleared(mcpServers[i])
    /\ mcpServers[i].toolCount = Len(mcpServers[i].tools)

\* An endpoint that was online with a tool cached has failed its probe and
\* is offline, next to a registered endpoint that is online with its tool
C35_Witness ==
  /\ reg.last.kind = "poll"
  /\ Len(mcpServers) = 2
  /\ reg.last.before[1].status = "online"
  /\ reg.last.before[1].tools # <<>>
  /\ mcpServers[1].status = "offline"
  /\ mcpServers[2].status = "online"
  /\ mcpServers[2].toolCount = 1

\* ------------------------------------------ claims: registration and poll

\* The endpoint set holds an endpoint of that URL
Listed(servers, url) == \E j \in 1..Len(servers) : servers[j].url = url

\* The step ends a registration
RegistrationEnds == reg.registering /\ ~reg'.registering

C36_Step ==
  /\ \A i \in 1..Len(mcpServers) : Listed(mcpServers', mcpServers[i].url)
  /\ RegistrationEnds =>
       \A i \in 1..Len(mcpServers) : i <= Len(mcpServers') /\ mcpServers'[i] = mcpServers[i]

\* C36 (as claimed): no step takes an endpoint out of the endpoint set (the
\* user removes none here), and the write of a registration leaves the
\* records of the endpoints already in the set as the poll cycles made them.
C36_RegisteredEndpointStays == [][C36_Step]_vars

\* ------------------------------------------------ claims: session ownership

\* The step leaves session i of the list in the list, with its messages
SessionKept(i) == \E j \in 1..Len(sessions') : sessions'[j] = sessions[i]

C33_Step ==
  turn'.sessionId # 0 =>
    \A i \in 1..Len(sessions) : sessions[i].id # turn'.sessionId => SessionKept(i)

\* C33 (as claimed): a step of a turn leaves every session other than the
\* one whose id the turn captured in the list with the messages it had.
C33_TurnWritesOwnSessionOnly == [][C33_Step]_vars

\* What holds of C33: when every send follows the render of the state before
\* it, the steps of a turn leave every other session as it was, also while
\* the user selects another session or opens a new one.
FlushedTurnWritesOwnSessionOnly == [][C33_Step]_vars

\* ------------------------------------------- claims: steps without an agent

\* The run has issued a request for step j
Requested(j) == \E q \in 1..Len(wf.requests) : wf.requests[q].step = j

\* C40: a step whose agent is not found is passed over: no request is
\* issued for it and its log stays pending with no output; the request of
\* the step after it carries the context the step before it left (the input
\* of the run when there is none); and a run that ends without an error has
\* completed every step that has an agent, also those after the step passed
\* over.
C40_MissingAgentSkipped ==
  wf.runs > 0 =>
    /\ \A j \in 1..Len(wf.steps) :
         ~HasAgent(j) =>
           /\ ~Requested(j)
           /\ wf.workflowLogs[j].status = "pending"
           /\ wf.workflowLogs[j].output = Str(<<>>)
    /\ \A q \in 1..Len(wf.requests) :
         q <= Len(wf.answers) + 1 =>
           wf.requests[q].prompt =
             StepPrompt(wf.input, ContextDue(q), wf.steps[wf.requests[q].step].description)
    /\ RunOver /\ ~Aborted =>
         \A j \in 1..Len(wf.steps) : HasAgent(j) => IsCompleted(j)

\* A run of three steps whose second step has no agent is over: steps 1 and
\* 3 were requested and completed, and step 3 was asked with the output of
\* step 1
C40_Witness ==
  /\ RunOver
  /\ Len(wf.steps) = 3
  /\ ~HasAgent(2)
  /\ [q \in 1..Len(wf.requests) |-> wf.requests[q].step] = <<1, 3>>
  /\ [j \in 1..3 |-> wf.workflowLogs[j].status] = <<"completed", "pending", "completed">>
  /\ RawOutput(1) = Str(Text("draft"))
  /\ wf.requests[2].prompt =
       StepPrompt(wf.input, Str(Text("draft")), wf.steps[3].description)

\* ------------------------------------------- claims: invocations skipped

\* The manifest of the turn has a tool of the name of invocation i
InManifest(i) ==
  \E m \in 1..Len(turn.mcpTools) :
    NameStr(turn.mcpTools[m].name) = CallName(turn.toolCalls[i])

\* The invocations of the resolved list up to i that the manifest knows
KnownUpTo(i) == {e \in 1..i : InManifest(e)}

\* C38: an invocation whose tool is not in the manifest of the turn gets no
\* tools/call and no tool message; the others get theirs in the order of the
\* list; and once the loop is through the list the follow-up request is
\* issued, with as many tool messages as invocations the manifest knows,
\* also when it knows none of them.
C38_UnknownToolSkipped ==
  /\ \A k \in 1..Len(net.calls) :
       /\ InManifest(net.calls[k].index)
       /\ Cardinality(KnownUpTo(net.calls[k].index)) = k
       /\ net.calls[k].name = CallName(turn.toolCalls[net.calls[k].index])
  /\ Len(turn.toolResponses) <= Len(net.calls)
  /\ turn.toolCalls # <<>> /\ pc # "call_wait" =>
       /\ Len(net.chat) = 2
       /\ Len(net.calls) = Cardinality(KnownUpTo(Len(turn.toolCalls)))
       /\ Len(net.chat[2].messages) = Len(net.chat[1].messages) + 1 + Len(net.calls)
       /\ net.alert = <<>> \/ Len(net.replies) = 2

\* The model has asked for three tools while the manifest of the turn is
\* empty: no tools/call went out, and the follow-up request was issued and
\* answered
C38_Witness ==
  /\ pc = "idle"
  /\ Len(turn.toolCalls) = 3
  /\ turn.mcpTools = <<>>
  /\ net.calls = <<>>
  /\ Len(net.chat) = 2
  /\ net.alert = <<>>

\* The first of three invocations is not in the manifest and the other two
\* have had their tools/call, in order
SkippedThenExecuted ==
  /\ Len(turn.toolCalls) = 3
  /\ ~InManifest(1)
  /\ [k \in 1..Len(net.calls) |-> net.calls[k].index] = <<2, 3>>
  /\ Len(net.chat) = 2

\* ------------------------------------------------ claims: one run at a time

\* The logs that are running
Running(logs) == {j \in 1..Len(logs) : logs[j].status = "running"}

\* Every step the latest run has requested is completed or an error
StartedAreSettled(w) ==
  \A q \in 1..Len(w.requests) :
    w.workflowLogs[w.requests[q].step].status \in {"completed", "error"}

C39_Step ==
  /\ Cardinality(Running(wf'.workflowLogs)) <= 1
  /\ ~wf'.isWFRunning => Running(wf'.workflowLogs) = {} /\ StartedAreSettled(wf')
  /\ wf.isWFRunning => wf'.runs = wf.runs

\* C39 (as claimed): at most one log is running; when the running flag is
\* false no log is running and every step the run has started is completed
\* or an error; and a run request made while the flag is true starts no run.
C39_OneRunAtATime == [][C39_Step]_vars

C39_RenderedStep ==
  /\ wf.prior = <<>> /\ wf'.prior = <<>> =>
       /\ Cardinality(Running(wf'.workflowLogs)) <= 1
       /\ ~wf'.isWFRunning => Running(wf'.workflowLogs) = {} /\ StartedAreSettled(wf')
  /\ wf.isWFRunning /\ ~wf.stale => wf'.runs = wf.runs

\* What holds of C39: a run request handled after the render of the running
\* flag starts nothing while a run is in progress, and as long as no run has
\* overtaken another at most one log is running and none once the run ended.
RenderedRequestStartsNothing == [][C39_RenderedStep]_vars

\* -------------------------------------------------- claims: logs of a run

\* The latest run has got the answer to its request for step j
AnsweredStep(j) ==
  \E q \in 1..Len(wf.answers) : wf.requests[q].step = j

\* The log of step j shows only what the latest run has done for the step
OwnLog(j) ==
  /\ wf.workflowLogs[j].stepId = wf.steps[j].id
  /\ wf.workflowLogs[j].status = "pending" =>
       ~Requested(j) /\ wf.workflowLogs[j].output = Str(<<>>)
  /\ wf.workflowLogs[j].status = "running" =>
       Requested(j) /\ ~AnsweredStep(j) /\ wf.workflowLogs[j].output = Str(<<>>)
  /\ wf.workflowLogs[j].status \in {"completed", "error"} => AnsweredStep(j)

\* C34 (as claimed): from the start of a run on, the logs are one entry per
\* step of that run, and each shows only what that run has done: pending
\* with no output until the run requests the step, running with no output
\* until the request is answered, completed or error after that.
C34_LogsOfLatestRunOnly ==
  wf.runs > 0 =>
    /\ Len(wf.workflowLogs) = Len(wf.steps)
    /\ \A j \in 1..Len(wf.steps) : OwnLog(j)

\* What holds of C34: the same, as long as no run was started while another
\* was in progress, also for a run that follows a run of another workflow.
LogsOfLatestRunWhenAlone ==
  wf.runs > 0 /\ wf.prior = <<>> =>
    /\ Len(wf.workflowLogs) = Len(wf.steps)
    /\ \A j \in 1..Len(wf.steps) : OwnLog(j)

\* A second run, of the other workflow, has started after the first ended
SecondRunAfterFirst ==
  /\ wf.runs = 2
  /\ wf.prior = <<>>
  /\ wf.executingWorkflowId = "wf-1"
  /\ wf.isWFRunning

\* --------------------------------------------------- claims: loading flag

\* C37 (as claimed, the part a finite run decides): the loading flag is true
\* as long as a turn is running.
C37_LoadingThroughoutTurn == pc # "idle" => isLoading

\* What holds of C37: when every send follows the render of the state before
\* it, the loading flag is true as long as the turn runs and false when no
\* turn runs ...
LoadingIffTurnRuns == isLoading <=> pc # "idle"

\* How far a turn is from its end: the place of the handler, and what is
\* left to do there (endpoints to ask, text to read, invocations to go over)
StageOf(p) ==
  CASE p = "augment" -> 7
    [] p = "list_wait" -> 6
    [] p = "chat1_wait" -> 5
    [] p = "stream1" -> 4
    [] p = "call_wait" -> 3
    [] p = "chat2_wait" -> 2
    [] p = "stream2" -> 1
    [] OTHER -> 0

LeftAt(p, t, r) ==
  CASE p = "list_wait" -> Len(t.servers) - t.srv
    [] p \in {"stream1", "stream2"} -> Len(r.rest)
    [] p = "call_wait" -> Len(t.toolCalls) - t.idx
    [] OTHER -> 0

TurnRank(p, t, r) == 100 * StageOf(p) + LeftAt(p, t, r)

\* ... and every step of a turn brings it nearer to its end, so a turn whose
\* requests are all answered ends, with the loading flag false.
TurnNearsEnd == [][pc # "idle" => TurnRank(pc', turn', rd') < TurnRank(pc, turn, rd)]_vars

=========================================================================
